---------------------------- MODULE Spec2Model ----------------------------
(***************************************************************************)
(* A model of zhaolion/gen: the types.Universe registry (types/types.go,   *)
(* types/builtin.go) and the parser.Builder that fills it                  *)
(* (parser/builder.go, parser/util.go).                                    *)
(*                                                                         *)
(* Two specifications share the module.                                    *)
(*   SpecWalk  the Universe accessors and Builder.walkType, run as a       *)
(*             machine with an explicit call stack over a fixed set of     *)
(*             resolved (go/types) types.                                  *)
(*   Spec      the package resolver: AddDir / AddDirRecursive /            *)
(*             importPackage / typeCheckPackage with the type checker's    *)
(*             import callback, and FindTypes.                             *)
(***************************************************************************)
EXTENDS Naturals, Sequences, FiniteSets, TLC

(***************************************************************************)
(* Bounds of the model.                                                    *)
(***************************************************************************)
\* top-level operations (accessor calls, walked declarations) per Universe
MaxOps == 2
\* depth of the walkType / convertSignature call stack
MaxDepth == 14
\* calls of AddDir / AddDirRecursive on one Builder
MaxCalls == 2
\* packages of the source tree that have something wrong
MaxFaults == 1

(***************************************************************************)
(* Strings.  A Go string is a sequence of tokens; "." is a token of its    *)
(* own, and so is every prefix tcNameToName tests for, so that             *)
(* strings.HasPrefix and strings.Split(in, ".") are computed, not assumed. *)
(***************************************************************************)
EmptyString == <<>>

\* types/types.go Kind constants
Unknown == ""
Builtin == "Builtin"
Struct == "Struct"
Map == "Map"
Slice == "Slice"
Pointer == "Pointer"
Alias == "Alias"
Interface == "Interface"
Array == "Array"
Chan == "Chan"
Func == "Func"
DeclarationOf == "DeclarationOf"
Unsupported == "Unsupported"

\* a nil *types.Type / *types.Package
Nil == 0

(***************************************************************************)
(* The resolved types handed over by the type checker (go/types).  Each    *)
(* entry is one tc.Type value; the fields a category does not have are     *)
(* empty.  The declarations are those of one package "p":                  *)
(*   type Point struct { X int; Y int `json:"y"` }                         *)
(*   func (p *Point) Dist() float64                                        *)
(*   type Node struct { Next *Node; Owner *Tree }                          *)
(*   func (n *Node) Up(m *Node) *Tree                                      *)
(*   type Tree struct { Point; Root *Node }                                *)
(*   func (t Tree) Size(more ...int) int                                   *)
(*   type Svc interface { Get(ID) Point }                                  *)
(*   type Sub interface { Svc }                                            *)
(*   type ID string                                                        *)
(*   type Reg map[string][2]chan int                                       *)
(*   type Ints []int                                                       *)
(*   type Box[T any] struct { V T; C complex128; D complex128; W T }       *)
(*   // MyInt doc                                                          *)
(*   type MyInt = int     (a type name whose Type() is the primitive int)  *)
(*   func Zero() int                                                       *)
(*   var Seen Ints                                                         *)
(*   const Limit ID                                                        *)
(***************************************************************************)
TcType(cat, name, pkg, under, elem, key, fields, methods, params, results, recv, variadic) ==
  [cat |-> cat, name |-> name, pkg |-> pkg, under |-> under, elem |-> elem,
   key |-> key, fields |-> fields, methods |-> methods, params |-> params,
   results |-> results, recv |-> recv, variadic |-> variadic]

TcBasic(name) == TcType("Basic", name, "", "", "", "", <<>>, <<>>, <<>>, <<>>, "", FALSE)
TcNamed(pkg, name, under, methods) ==
  TcType("Named", name, pkg, under, "", "", <<>>, methods, <<>>, <<>>, "", FALSE)
TcStruct(fields) == TcType("Struct", "", "", "", "", "", fields, <<>>, <<>>, <<>>, "", FALSE)
TcPointer(elem) == TcType("Pointer", "", "", "", elem, "", <<>>, <<>>, <<>>, <<>>, "", FALSE)
TcArray(len, elem) == TcType("Array", len, "", "", elem, "", <<>>, <<>>, <<>>, <<>>, "", FALSE)
TcChan(elem) == TcType("Chan", "", "", "", elem, "", <<>>, <<>>, <<>>, <<>>, "", FALSE)
TcMap(key, elem) == TcType("Map", "", "", "", elem, key, <<>>, <<>>, <<>>, <<>>, "", FALSE)
\* a type parameter: a category walkType has no case for
TcTypeParam(name) == TcType("TypeParam", name, "", "", "", "", <<>>, <<>>, <<>>, <<>>, "", FALSE)
TcSlice(elem) == TcType("Slice", "", "", "", elem, "", <<>>, <<>>, <<>>, <<>>, "", FALSE)
TcSignature(recv, params, results, variadic) ==
  TcType("Signature", "", "", "", "", "", <<>>, <<>>, params, results, recv, variadic)
TcInterface(methods) ==
  TcType("Interface", "", "", "", "", "", <<>>, methods, <<>>, <<>>, "", FALSE)

\* a struct field: name, Anonymous(), Tag(i), type, and the text of the comment
\* group that ends on the line above it (<<>> when there is none)
Field(name, anon, tag, type, doc) ==
  [name |-> name, anon |-> anon, tag |-> tag, type |-> type, doc |-> doc]
\* a method (*tc.Func): name, signature, and the comment above it
Method(name, sig, doc) == [name |-> name, sig |-> sig, doc |-> doc]

TC ==
  [ int     |-> TcBasic("int"),
    float64 |-> TcBasic("float64"),
    string  |-> TcBasic("string"),
    Point   |-> TcNamed("p", "Point", "sPoint", <<Method("Dist", "fDist", <<"Dist doc">>)>>),
    sPoint  |-> TcStruct(<<Field("X", FALSE, "", "int", <<>>),
                           Field("Y", FALSE, "json:y", "int", <<"Y doc">>)>>),
    pPoint  |-> TcPointer("Point"),
    fDist   |-> TcSignature("pPoint", <<>>, <<"float64">>, FALSE),
    Node    |-> TcNamed("p", "Node", "sNode", <<Method("Up", "fUp", <<>>)>>),
    sNode   |-> TcStruct(<<Field("Next", FALSE, "", "pNode", <<>>),
                           Field("Owner", FALSE, "", "pTree", <<>>)>>),
    pNode   |-> TcPointer("Node"),
    fUp     |-> TcSignature("pNode", <<"pNode">>, <<"pTree">>, FALSE),
    Tree    |-> TcNamed("p", "Tree", "sTree", <<Method("Size", "fSize", <<>>)>>),
    sTree   |-> TcStruct(<<Field("Point", TRUE, "", "Point", <<>>),
                           Field("Root", FALSE, "", "pNode", <<>>)>>),
    pTree   |-> TcPointer("Tree"),
    slInt   |-> TcSlice("int"),
    fSize   |-> TcSignature("Tree", <<"slInt">>, <<"int">>, TRUE),
    fZero   |-> TcSignature("", <<>>, <<"int">>, FALSE),
    Svc     |-> TcNamed("p", "Svc", "iSvc", <<>>),
    iSvc    |-> TcInterface(<<Method("Get", "fGet", <<"Get doc">>)>>),
    fGet    |-> TcSignature("Svc", <<"ID">>, <<"Point">>, FALSE),
    Sub     |-> TcNamed("p", "Sub", "iSub", <<>>),
    iSub    |-> TcInterface(<<Method("Get", "fGet", <<"Get doc">>)>>),
    ID      |-> TcNamed("p", "ID", "string", <<>>),
    Reg     |-> TcNamed("p", "Reg", "mReg", <<>>),
    mReg    |-> TcMap("string", "aChan"),
    aChan   |-> TcArray("2", "chInt"),
    chInt   |-> TcChan("int"),
    Ints    |-> TcNamed("p", "Ints", "slInt", <<>>),
    Box     |-> TcNamed("p", "Box", "sBox", <<>>),
    sBox    |-> TcStruct(<<Field("V", FALSE, "", "T", <<>>),
                           Field("C", FALSE, "", "complex128", <<>>),
                           Field("D", FALSE, "", "complex128", <<>>),
                           Field("W", FALSE, "", "T", <<>>)>>),
    T       |-> TcTypeParam("T"),
    complex128 |-> TcBasic("complex128") ]

\* the type names of the package scope (tc.TypeName objects), each with the
\* comment groups findTypesIn finds above it: c1 ends on the line above the
\* declaration, c2 is the group of the second lookup
TypeDecl(type, c1, c2) == [type |-> type, c1 |-> c1, c2 |-> c2]

Decls ==
  { TypeDecl("Point", <<"Point doc">>, <<"block">>),
    TypeDecl("Node", <<>>, <<>>),
    TypeDecl("Tree", <<>>, <<"Tree block">>),
    TypeDecl("Svc", <<"Svc doc">>, <<>>),
    TypeDecl("Sub", <<>>, <<>>),
    TypeDecl("ID", <<>>, <<>>),
    TypeDecl("Reg", <<>>, <<>>),
    TypeDecl("Ints", <<>>, <<>>),
    TypeDecl("int", <<"MyInt doc">>, <<>>),
    TypeDecl("Box", <<>>, <<>>) }

NoDecl == TypeDecl("", <<>>, <<>>)

\* the functions, variables and constants of the package scope (tc.Func,
\* tc.Var, tc.Const objects), a function with the comment groups above it
TcObject(word, pkg, name, type, c1, c2) ==
  [word |-> word, pkg |-> pkg, name |-> name, type |-> type, c1 |-> c1, c2 |-> c2]

Objs ==
  [ Zero  |-> TcObject("func ", "p", "Zero", "fZero", <<"Zero doc">>, <<>>),
    Seen  |-> TcObject("var", "p", "Seen", "Ints", <<>>, <<>>),
    Limit |-> TcObject("const", "p", "Limit", "ID", <<>>, <<>>) ]

TcKeys == DOMAIN TC


(***************************************************************************)
(* tc.Type.String() and tc.Func.String(), as go/types writes them: a named *)
(* type prints as its qualified name, a composite prints its structure.    *)
(***************************************************************************)
RECURSIVE JoinWith(_, _)
\* strings.Join(parts, sep) for parts that are strings (token sequences)
JoinWith(parts, sep) ==
  IF parts = <<>> THEN <<>>
  ELSE IF Len(parts) = 1 THEN parts[1]
  ELSE parts[1] \o <<sep>> \o JoinWith(Tail(parts), sep)

TypeString[t \in TcKeys] ==
  LET FieldString(f) ==
        (IF f.anon THEN <<>> ELSE <<f.name, " ">>) \o TypeString[f.type]
        \o (IF f.tag = "" THEN <<>> ELSE <<" ", f.tag>>)
      ResultString(rs) ==
        IF rs = <<>> THEN <<>>
        ELSE IF Len(rs) = 1 THEN <<" ">> \o TypeString[rs[1]]
        ELSE <<" ", "(">> \o JoinWith([i \in 1..Len(rs) |-> TypeString[rs[i]]], ", ") \o <<")">>
      ParamString(tc, ps, variadic) ==
        JoinWith([i \in 1..Len(ps) |->
                    IF variadic /\ i = Len(ps)
                    THEN <<"...">> \o TypeString[tc[ps[i]].elem]
                    ELSE TypeString[ps[i]]], ", ")
      SigString(tc, s) ==
        ParamString(tc, s.params, s.variadic) \o <<")">> \o ResultString(s.results)
      MethodsString(tc, ms) ==
        JoinWith([i \in 1..Len(ms) |-> <<ms[i].name, "(">> \o SigString(tc, tc[ms[i].sig])], "; ")
      Str(tc, r) ==
        CASE r.cat = "Basic" -> <<r.name>>
          [] r.cat = "Named" -> IF r.pkg = "" THEN <<r.name>> ELSE <<r.pkg, ".", r.name>>
          [] r.cat = "Pointer" -> <<"*">> \o TypeString[r.elem]
          [] r.cat = "Slice" -> <<"[]">> \o TypeString[r.elem]
          [] r.cat = "Array" -> <<"[", r.name, "]">> \o TypeString[r.elem]
          [] r.cat = "Chan" -> <<"chan ">> \o TypeString[r.elem]
          [] r.cat = "Map" -> <<"map[">> \o TypeString[r.key] \o <<"]">> \o TypeString[r.elem]
          [] r.cat = "Struct" ->
               <<"struct{">>
               \o JoinWith([i \in 1..Len(r.fields) |-> FieldString(r.fields[i])], "; ")
               \o <<"}">>
          [] r.cat = "Signature" -> <<"func(">> \o SigString(tc, r)
          [] r.cat = "Interface" -> <<"interface{">> \o MethodsString(tc, r.methods) \o <<"}">>
          [] OTHER -> <<r.name>>
  IN Str(TC, TC[t])

\* tc.Func.String() of a method: "func (recv).Name(params) results"
MethodString(m) ==
  LET s == TC[m.sig]
      sig == TypeString[m.sig]
  IN <<"func ", "(">> \o TypeString[s.recv] \o <<")", ".", m.name, "(">> \o Tail(sig)

\* tc.Func.String() of a function: "func pkg.Name(params) results";
\* tc.Var.String() and tc.Const.String(): "var pkg.Name type", "const pkg.Name type"
ObjectString(in) ==
  IF in.word = "func "
  THEN <<in.word, in.pkg, ".", in.name, "(">> \o Tail(TypeString[in.type])
  ELSE <<in.word, " ", in.pkg, ".", in.name, " ">> \o TypeString[in.type]

(***************************************************************************)
(* parser/util.go                                                          *)
(***************************************************************************)
\* the first tokens of the strings that have one of the anonymous prefixes
AnonymousPrefixes ==
  {"struct{", "<-chan", "chan<-", "chan ", "func(", "*", "map[", "[", "[]"}

HasAnonymousPrefix(in) == in # <<>> /\ in[1] \in AnonymousPrefixes

\* the index of the last "." of in, 0 when there is none
LastDot(in) ==
  LET dots == {i \in 1..Len(in) : in[i] = "."}
  IN IF dots = {} THEN 0 ELSE CHOOSE i \in dots : \A j \in dots : j <= i

MkName(pkg, name) == [Package |-> pkg, Name |-> name]

tcNameToName(in) ==
  IF HasAnonymousPrefix(in) THEN MkName(EmptyString, in)
  ELSE IF LastDot(in) = 0 THEN MkName(EmptyString, in)
  ELSE MkName(SubSeq(in, 1, LastDot(in) - 1), SubSeq(in, LastDot(in) + 1, Len(in)))

\* strings.TrimPrefix(in, prefix) for a prefix that is one token
TrimPrefix(in, prefix) == IF in # <<>> /\ in[1] = prefix THEN Tail(in) ELSE in

RECURSIVE Split(_, _)
\* strings.Split(in, sep) for a separator that is one token
Split(in, sep) ==
  LET at == {i \in 1..Len(in) : in[i] = sep}
  IN IF at = {} THEN <<in>>
     ELSE LET k == CHOOSE i \in at : \A j \in at : i <= j
          IN <<SubSeq(in, 1, k - 1)>> \o Split(SubSeq(in, k + 1, Len(in)), sep)

tcFuncNameToName(in) == tcNameToName(Split(TrimPrefix(in, "func "), "(")[1])

\* nameParts[0] is "var", nameParts[1] the qualified name
tcVarNameToName(in) == tcNameToName(Split(in, " ")[2])

\* strings.Split(strings.TrimRight(str, "\n"), "\n"): a text is the sequence of
\* its lines, and the empty text splits into one empty line
splitLines(text) == IF text = <<>> THEN <<"">> ELSE text

(***************************************************************************)
(* types/builtin.go: the process-wide builtin nodes and the name table.    *)
(* "int8", "uint8" and "byte" share the Byte node.                         *)
(***************************************************************************)
NewType(name, kind) ==
  [Name |-> name, Kind |-> kind, CommentLines |-> <<>>,
   SecondClosestCommentLines |-> <<>>, Members |-> <<>>, Elem |-> Nil, Key |-> Nil,
   Underlying |-> Nil, Methods |-> <<>>, Signature |-> <<>>]

BuiltinNames ==
  <<"string", "int64", "int32", "int16", "int", "uint64", "uint32", "uint16",
    "uint", "uintptr", "float64", "float32", "float", "bool", "byte">>

\* the node of the builtin variable declared i-th (String, Int64, ..., Byte)
BuiltinNodes ==
  [i \in 1..Len(BuiltinNames) |-> NewType(MkName(EmptyString, <<BuiltinNames[i]>>), Builtin)]

BuiltinVar(name) == CHOOSE i \in 1..Len(BuiltinNames) : BuiltinNames[i] = name

\* builtins.Types
builtins ==
  [n \in {<<BuiltinNames[i]>> : i \in 1..Len(BuiltinNames)} |-> BuiltinVar(n[1])]
  @@ (<<"int8">> :> BuiltinVar("byte")) @@ (<<"uint8">> :> BuiltinVar("byte"))

(***************************************************************************)
(* types/types.go: the Universe.  A store holds the Universe map           *)
(* (path -> *Package), the Package records and the Type nodes; a pointer   *)
(* is an index into pk or nd, so that two pointers are the identical node  *)
(* exactly when they are equal.  log lists the accessor calls made, in     *)
(* order (family, package path, local name, pointer returned).             *)
(***************************************************************************)
NewPackage(path) ==
  [Path |-> path, SourcePath |-> EmptyString, Name |-> "", Types |-> <<>>, Functions |-> <<>>,
   Variables |-> <<>>, Constants |-> <<>>, Imports |-> <<>>]

Called(st, fam, pkg, name, ret) ==
  [st EXCEPT !.log = Append(@, [fam |-> fam, pkg |-> pkg, name |-> name, ret |-> ret])]

\* Universe.Package
UniversePackage(st, packagePath) ==
  IF packagePath \in DOMAIN st.u
  THEN [st |-> Called(st, "Package", packagePath, EmptyString, st.u[packagePath]),
        ret |-> st.u[packagePath]]
  ELSE LET p == Len(st.pk) + 1
       IN [st |-> Called([st EXCEPT !.pk = Append(@, NewPackage(packagePath)),
                                    !.u = @ @@ (packagePath :> p)],
                         "Package", packagePath, EmptyString, p),
           ret |-> p]

\* Package.Type with every lookup skipped: a node is made on each call
PackageTypeNoLookup(st, p, typeName) ==
  LET t == Len(st.nd) + 1
  IN [st |-> [st EXCEPT !.nd = Append(@, NewType(MkName(st.pk[p].Path, typeName), Unknown)),
                        !.pk[p].Types = (typeName :> t) @@ @],
      ret |-> t]

\* Package.Type without the import of the builtin types: a primitive gets a
\* node of its own in every Universe
PackageTypeNoBuiltins(st, p, typeName) ==
  IF typeName \in DOMAIN st.pk[p].Types
  THEN [st |-> st, ret |-> st.pk[p].Types[typeName]]
  ELSE LET t == Len(st.nd) + 1
       IN [st |-> [st EXCEPT !.nd = Append(@, NewType(MkName(st.pk[p].Path, typeName), Builtin)),
                             !.pk[p].Types = @ @@ (typeName :> t)],
           ret |-> t]

\* Package.Type
PackageType(st, p, typeName) ==
  IF typeName \in DOMAIN st.pk[p].Types
  THEN [st |-> st, ret |-> st.pk[p].Types[typeName]]
  ELSE IF st.pk[p].Path = EmptyString /\ typeName \in DOMAIN builtins
  THEN [st |-> [st EXCEPT !.pk[p].Types = @ @@ (typeName :> builtins[typeName])],
        ret |-> builtins[typeName]]
  ELSE LET t == Len(st.nd) + 1
       IN [st |-> [st EXCEPT !.nd = Append(@, NewType(MkName(st.pk[p].Path, typeName), Unknown)),
                             !.pk[p].Types = @ @@ (typeName :> t)],
           ret |-> t]

\* the three kept in the map of the types
PackageDeclInTypes(st, p, fam, declName) ==
  LET r == PackageType(st, p, declName)
  IN [st |-> [r.st EXCEPT !.nd[r.ret].Kind = DeclarationOf], ret |-> r.ret]

\* Package.Function, Package.Variable, Package.Constant: the three differ in
\* the map they keep (fam is "Functions", "Variables" or "Constants")
PackageDecl(st, p, fam, declName) ==
  IF declName \in DOMAIN st.pk[p][fam]
  THEN [st |-> st, ret |-> st.pk[p][fam][declName]]
  ELSE LET t == Len(st.nd) + 1
       IN [st |-> [st EXCEPT !.nd = Append(@, NewType(MkName(st.pk[p].Path, declName),
                                                      DeclarationOf)),
                             !.pk[p][fam] = @ @@ (declName :> t)],
           ret |-> t]

\* Universe.Type
UniverseType(st, n) ==
  LET a == UniversePackage(st, n.Package)
      b == PackageType(a.st, a.ret, n.Name)
  IN [st |-> Called(b.st, "Types", n.Package, n.Name, b.ret), ret |-> b.ret]

\* Universe.Function, Universe.Variable, Universe.Constant
UniverseDecl(st, fam, n) ==
  LET a == UniversePackage(st, n.Package)
      b == PackageDecl(a.st, a.ret, fam, n.Name)
  IN [st |-> Called(b.st, fam, n.Package, n.Name, b.ret), ret |-> b.ret]

\* types.Universe{} in a process whose builtin nodes are nd[1..15]
EmptyUniverse(nd) == [u |-> <<>>, pk |-> <<>>, nd |-> nd, log |-> <<>>]


(***************************************************************************)
(* State.                                                                  *)
(*   uni      the store of the Universe being built (u, pk, nd, log)       *)
(*   stack    the call stack of walkType / convertSignature frames         *)
(*   rv       the value the last call returned: a node, or a Signature     *)
(*   pending  the declaration findTypesIn is working on (NoDecl: none)     *)
(*   ops      top-level operations made on this Universe                   *)
(***************************************************************************)
(*   world    the source tree the Builder reads                             *)
(*   builder  the Builder's maps                                            *)
(*   bstack   the call stack of importPackage frames                        *)
(*   bret     what the last importPackage returned (pkg, err)               *)
(*   cur      the AddDir / AddDirRecursive call that is running             *)
(*   history  the calls that have returned, each with the error returned    *)
(*   checks   how often Check was called, per package path                  *)
(*   found    what FindTypes returned, when called since the last change    *)
VARIABLES uni, stack, rv, pending, ops, world, builder, bstack, bret, cur, history, found,
          checks

walkVars == <<uni, stack, rv, pending, ops>>
builderVars == <<world, builder, bstack, bret, cur, history, found, checks>>
vars == <<uni, stack, rv, pending, ops, world, builder, bstack, bret, cur, history, found,
          checks>>

NoSignature == <<>>
EmptySignature ==
  [Receiver |-> Nil, Parameters |-> <<>>, Results |-> <<>>, Variadic |-> FALSE,
   CommentLines |-> <<>>]

RetNode(t) == [node |-> t, sig |-> NoSignature]
RetSig(s) == [node |-> Nil, sig |-> <<s>>]

WalkFrame(t, use) ==
  [op |-> "walkType", t |-> t, use |-> use, pc |-> "start", out |-> Nil, i |-> 1,
   sig |-> EmptySignature]
SigFrame(t) ==
  [op |-> "convertSignature", t |-> t, use |-> <<>>, pc |-> "params", out |-> Nil, i |-> 1,
   sig |-> EmptySignature]

Top == stack[Len(stack)]

\* the running frame returns v to its caller
Return(st, v) ==
  /\ uni' = st
  /\ stack' = SubSeq(stack, 1, Len(stack) - 1)
  /\ rv' = v
  /\ UNCHANGED <<pending, ops, builderVars>>

\* the running frame goes on as f
Goto(st, f) ==
  /\ uni' = st
  /\ stack' = [stack EXCEPT ![Len(stack)] = f]
  /\ UNCHANGED <<rv, pending, ops, builderVars>>

\* the running frame, left as f, calls child
Call(st, f, child) ==
  /\ Len(stack) < MaxDepth
  /\ uni' = st
  /\ stack' = Append([stack EXCEPT ![Len(stack)] = f], child)
  /\ UNCHANGED <<rv, pending, ops, builderVars>>

Walking(cat) ==
  /\ stack # <<>>
  /\ Top.op = "walkType"
  /\ TC[Top.t].cat = cat

\* walkType: name := tcNameToName(in.String()), or *useName when given
WalkName(f) == IF f.use # <<>> THEN f.use[1] ELSE tcNameToName(TypeString[f.t])

\* a guard that never finds a node made
KindKnownNever(node) == FALSE

\* the guard every case of walkType starts with: out.Kind != types.Unknown
KindKnown(node) == node.Kind # Unknown

\* the cases *tc.Pointer, *tc.Slice, *tc.Array, *tc.Chan: Kind, then Elem
WalkElem(kind) ==
  LET f == Top
  IN CASE f.pc = "start" ->
            LET a == UniverseType(uni, WalkName(f))
            IN IF KindKnown(a.st.nd[a.ret]) THEN Return(a.st, RetNode(a.ret))
               ELSE Call([a.st EXCEPT !.nd[a.ret].Kind = kind],
                         [f EXCEPT !.out = a.ret, !.pc = "elem"],
                         WalkFrame(TC[f.t].elem, <<>>))
       [] f.pc = "elem" ->
            Return([uni EXCEPT !.nd[f.out].Elem = rv.node], RetNode(f.out))

WalkPointer == Walking("Pointer") /\ WalkElem(Pointer)
WalkSlice == Walking("Slice") /\ WalkElem(Slice)
WalkArray == Walking("Array") /\ WalkElem(Array)
WalkChan == Walking("Chan") /\ WalkElem(Chan)

\* case *tc.Struct
WalkStruct ==
  /\ Walking("Struct")
  /\ LET f == Top
         t == TC[f.t]
     IN CASE f.pc = "start" ->
               LET a == UniverseType(uni, WalkName(f))
               IN IF KindKnown(a.st.nd[a.ret]) THEN Return(a.st, RetNode(a.ret))
                  ELSE Goto([a.st EXCEPT !.nd[a.ret].Kind = Struct],
                            [f EXCEPT !.out = a.ret, !.i = 1, !.pc = "loop"])
          [] f.pc = "loop" ->
               IF f.i <= Len(t.fields)
               THEN Call(uni, [f EXCEPT !.pc = "field"], WalkFrame(t.fields[f.i].type, <<>>))
               ELSE Return(uni, RetNode(f.out))
          [] f.pc = "field" ->
               LET fd == t.fields[f.i]
                   m == [Name |-> fd.name, Embedded |-> fd.anon, Tags |-> fd.tag,
                         Type |-> rv.node, CommentLines |-> splitLines(fd.doc)]
               IN Goto([uni EXCEPT !.nd[f.out].Members = Append(@, m)],
                       [f EXCEPT !.i = @ + 1, !.pc = "loop"])

\* case *tc.Map: Elem is walked before Key
WalkMap ==
  /\ Walking("Map")
  /\ LET f == Top
     IN CASE f.pc = "start" ->
               LET a == UniverseType(uni, WalkName(f))
               IN IF KindKnown(a.st.nd[a.ret]) THEN Return(a.st, RetNode(a.ret))
                  ELSE Call([a.st EXCEPT !.nd[a.ret].Kind = Map],
                            [f EXCEPT !.out = a.ret, !.pc = "elem"],
                            WalkFrame(TC[f.t].elem, <<>>))
          [] f.pc = "elem" ->
               Call([uni EXCEPT !.nd[f.out].Elem = rv.node], [f EXCEPT !.pc = "key"],
                    WalkFrame(TC[f.t].key, <<>>))
          [] f.pc = "key" ->
               Return([uni EXCEPT !.nd[f.out].Key = rv.node], RetNode(f.out))

\* a Basic case that registers the primitive in the package p
BareNameInPackage(t) == MkName(<<"p">>, <<TC[t].name>>)

\* case *tc.Basic: types.Name{Package: "", Name: t.Name()}
BareName(t) == MkName(EmptyString, <<TC[t].name>>)

\* case *tc.Basic: the name override is not used
WalkBasic ==
  /\ Walking("Basic")
  /\ LET a == UniverseType(uni, BareName(Top.t))
     IN IF KindKnown(a.st.nd[a.ret]) THEN Return(a.st, RetNode(a.ret))
        ELSE Return([a.st EXCEPT !.nd[a.ret].Kind = Unsupported], RetNode(a.ret))

\* case *tc.Signature
WalkSignature ==
  /\ Walking("Signature")
  /\ LET f == Top
     IN CASE f.pc = "start" ->
               LET a == UniverseType(uni, WalkName(f))
               IN IF KindKnown(a.st.nd[a.ret]) THEN Return(a.st, RetNode(a.ret))
                  ELSE Call([a.st EXCEPT !.nd[a.ret].Kind = Func],
                            [f EXCEPT !.out = a.ret, !.pc = "signature"], SigFrame(f.t))
          [] f.pc = "signature" ->
               Return([uni EXCEPT !.nd[f.out].Signature = rv.sig], RetNode(f.out))

\* the loop that walks the methods ms into out.Methods (interface methods, and
\* the methods declared on a named type)
WalkMethods(f, ms) ==
  CASE f.pc = "loop" ->
         IF f.i <= Len(ms)
         THEN Call(uni, [f EXCEPT !.pc = "method"],
                   WalkFrame(ms[f.i].sig, <<tcNameToName(MethodString(ms[f.i]))>>))
         ELSE Return(uni, RetNode(f.out))
    [] f.pc = "method" ->
         Goto([uni EXCEPT !.nd[rv.node].CommentLines = splitLines(ms[f.i].doc),
                          !.nd[f.out].Methods = (ms[f.i].name :> rv.node) @@ @],
              [f EXCEPT !.i = @ + 1, !.pc = "loop"])

\* case *tc.Interface
WalkInterface ==
  /\ Walking("Interface")
  /\ LET f == Top
     IN IF f.pc = "start"
        THEN LET a == UniverseType(uni, WalkName(f))
             IN IF KindKnown(a.st.nd[a.ret]) THEN Return(a.st, RetNode(a.ret))
                ELSE Goto([a.st EXCEPT !.nd[a.ret].Kind = Interface],
                          [f EXCEPT !.out = a.ret, !.i = 1, !.pc = "loop"])
        ELSE WalkMethods(f, TC[f.t].methods)

\* a switch without the alias branch
NamedIsAliasNever(cat) == FALSE

\* a switch that also sends a struct underlying to the alias branch
NamedIsAliasAlsoStruct(cat) == cat \in {"Named", "Basic", "Map", "Slice", "Struct"}

\* case *tc.Named: switch t.Underlying().(type) { case *tc.Named, *tc.Basic,
\* *tc.Map, *tc.Slice: ... }
NamedIsAlias(cat) == cat \in {"Named", "Basic", "Map", "Slice"}

\* if len(out.Methods) == 0
NeedsMethods(node) == Cardinality(DOMAIN node.Methods) = 0

\* case *tc.Named
WalkNamed ==
  /\ Walking("Named")
  /\ LET f == Top
         t == TC[f.t]
         name == tcNameToName(TypeString[f.t])
     IN CASE f.pc = "start" ->
               LET a == UniverseType(uni, name)
               IN IF KindKnown(a.st.nd[a.ret]) THEN Return(a.st, RetNode(a.ret))
                  ELSE IF NamedIsAlias(TC[t.under].cat)
                  THEN Call([a.st EXCEPT !.nd[a.ret].Kind = Alias],
                            [f EXCEPT !.out = a.ret, !.pc = "underlying"],
                            WalkFrame(t.under, <<>>))
                  ELSE Call(a.st, [f EXCEPT !.pc = "flattened"], WalkFrame(t.under, <<name>>))
          [] f.pc = "underlying" ->
               Goto([uni EXCEPT !.nd[f.out].Underlying = rv.node], [f EXCEPT !.pc = "methods"])
          [] f.pc = "flattened" ->
               Goto(uni, [f EXCEPT !.out = rv.node, !.pc = "methods"])
          [] f.pc = "methods" ->
               IF NeedsMethods(uni.nd[f.out])
               THEN Goto(uni, [f EXCEPT !.i = 1, !.pc = "loop"])
               ELSE Return(uni, RetNode(f.out))
          [] OTHER -> WalkMethods(f, t.methods)

\* default: a category walkType has no case for
\* the default case without out.Kind = types.Unsupported
WalkDefaultKeepsKind ==
  /\ stack # <<>>
  /\ Top.op = "walkType"
  /\ TC[Top.t].cat \notin {"Struct", "Map", "Pointer", "Slice", "Array", "Chan", "Basic",
                           "Signature", "Interface", "Named"}
  /\ LET a == UniverseType(uni, WalkName(Top))
     IN Return(a.st, RetNode(a.ret))

WalkDefault ==
  /\ stack # <<>>
  /\ Top.op = "walkType"
  /\ TC[Top.t].cat \notin {"Struct", "Map", "Pointer", "Slice", "Array", "Chan", "Basic",
                           "Signature", "Interface", "Named"}
  /\ LET a == UniverseType(uni, WalkName(Top))
     IN IF KindKnown(a.st.nd[a.ret]) THEN Return(a.st, RetNode(a.ret))
        ELSE Return([a.st EXCEPT !.nd[a.ret].Kind = Unsupported], RetNode(a.ret))

\* a receiver that is never walked
SigReceiverNone(t) == ""

\* t.Recv(), "" when the signature has none
SigReceiver(t) == TC[t].recv

\* Builder.convertSignature
ConvertSignature ==
  /\ stack # <<>>
  /\ Top.op = "convertSignature"
  /\ LET f == Top
         t == TC[f.t]
     IN CASE f.pc = "params" ->
               IF f.i <= Len(t.params)
               THEN Call(uni, [f EXCEPT !.pc = "param"], WalkFrame(t.params[f.i], <<>>))
               ELSE Goto(uni, [f EXCEPT !.i = 1, !.pc = "results"])
          [] f.pc = "param" ->
               Goto(uni, [f EXCEPT !.sig.Parameters = Append(@, rv.node), !.i = @ + 1,
                                   !.pc = "params"])
          [] f.pc = "results" ->
               IF f.i <= Len(t.results)
               THEN Call(uni, [f EXCEPT !.pc = "result"], WalkFrame(t.results[f.i], <<>>))
               ELSE IF SigReceiver(f.t) # ""
               THEN Call(uni, [f EXCEPT !.pc = "receiver"], WalkFrame(SigReceiver(f.t), <<>>))
               ELSE Return(uni, RetSig([f.sig EXCEPT !.Variadic = t.variadic]))
          [] f.pc = "result" ->
               Goto(uni, [f EXCEPT !.sig.Results = Append(@, rv.node), !.i = @ + 1,
                                   !.pc = "results"])
          [] f.pc = "receiver" ->
               Return(uni, RetSig([f.sig EXCEPT !.Receiver = rv.node,
                                                !.Variadic = t.variadic]))


\* the map of the Universe each of addFunction, addVariable, addConstant fills
DeclFamily ==
  [addFunction |-> "Functions", addVariable |-> "Variables", addConstant |-> "Constants"]

\* tcFuncNameToName(in.String()) of the functions of the scope
FuncName[o \in {x \in DOMAIN Objs : Objs[x].word = "func "}] ==
  tcFuncNameToName(ObjectString(Objs[o]))

\* tcVarNameToName(in.String()) of the variables and constants of the scope
VarName[o \in {x \in DOMAIN Objs : Objs[x].word # "func "}] ==
  tcVarNameToName(ObjectString(Objs[o]))

\* the name addFunction / addVariable / addConstant gives the object
DeclName(f) ==
  IF f.use # <<>> THEN f.use[1]
  ELSE IF f.op = "addFunction" THEN FuncName[f.t]
  ELSE VarName[f.t]

\* the body the three share: out := u.Function(name) (or Variable, Constant),
\* out.Kind = DeclarationOf, out.Underlying = b.walkType(u, nil, in.Type())
AddObject(op) ==
  /\ stack # <<>>
  /\ Top.op = op
  /\ LET f == Top
     IN CASE f.pc = "start" ->
               LET a == UniverseDecl(uni, DeclFamily[op], DeclName(f))
               IN Call([a.st EXCEPT !.nd[a.ret].Kind = DeclarationOf],
                       [f EXCEPT !.out = a.ret, !.pc = "underlying"],
                       WalkFrame(Objs[f.t].type, <<>>))
          [] f.pc = "underlying" ->
               Return([uni EXCEPT !.nd[f.out].Underlying = rv.node], RetNode(f.out))

addFunction == AddObject("addFunction")
addVariable == AddObject("addVariable")
addConstant == AddObject("addConstant")


(***************************************************************************)
(* The source tree the Builder reads (go/build, the file system, the       *)
(* parser and the type checker are the Builder's environment).  A path is  *)
(* the sequence of its segments: <<"r", "a">> is "r/a".                    *)
(*   r     the root directory, a package that has r/a and r/b below it     *)
(*   r/a   a package                                                       *)
(*   r/b   a package                                                       *)
(*   ./r/a a relative reference to r/a, the same directory                 *)
(*   v/vendor/r/b  a vendored copy of r/b, another directory               *)
(* A world fixes what each package imports and what is wrong with it:      *)
(*   "ok"       two files that parse and type-check                        *)
(*   "missing"  go/build cannot import the directory                       *)
(*   "nogo"     the directory holds no Go source file                      *)
(*   "partial"  the first file parses, the second does not                 *)
(*   "typeerr"  the files parse, the type checker reports an error         *)
(***************************************************************************)
PkgR == <<"r">>
PkgA == <<"r", "a">>
PkgB == <<"r", "b">>
DirAliasA == <<".", "r", "a">>
DirVendorB == <<"v", "vendor", "r", "b">>

Pkgs == {PkgR, PkgA, PkgB}
Dirs == Pkgs \cup {DirAliasA, DirVendorB}
RecursiveRoots == {PkgR}

FaultKinds == {"missing", "nogo", "partial", "typeerr"}

\* the import declarations of each package's files
ImportGraphs ==
  { (PkgR :> <<PkgA>>) @@ (PkgA :> <<PkgB>>) @@ (PkgB :> <<>>),
    (PkgR :> <<>>) @@ (PkgA :> <<PkgB>>) @@ (PkgB :> <<PkgA>>),
    (PkgR :> <<PkgA>>) @@ (PkgA :> <<PkgB>>) @@ (PkgB :> <<PkgR>>),
    (PkgR :> <<PkgA, PkgB>>) @@ (PkgA :> <<PkgA>>) @@ (PkgB :> <<>>) }

Worlds ==
  { w \in [imports : ImportGraphs, status : [Pkgs -> {"ok"} \cup FaultKinds]] :
      Cardinality({p \in Pkgs : w.status[p] # "ok"}) <= MaxFaults }

\* a world without faults and without import cycles
QuietWorld ==
  [imports |-> (PkgR :> <<PkgA>>) @@ (PkgA :> <<PkgB>>) @@ (PkgB :> <<>>),
   status |-> [p \in Pkgs |-> "ok"]]

\* the directory of an import path below the source root
SrcDir(importPath) == <<"src">> \o importPath

\* the import path go/build resolves a directory reference to
ResolvedImportPath(dir) == IF dir = DirAliasA THEN PkgA ELSE dir

\* what is wrong with the directory at absolute path d
DirStatus(w, d) ==
  IF \E p \in Pkgs : d = SrcDir(p)
  THEN w.status[CHOOSE p \in Pkgs : d = SrcDir(p)]
  ELSE IF d = SrcDir(DirVendorB) THEN "ok" ELSE "missing"

\* the imports of the files in the directory at absolute path d
DirImports(w, d) ==
  IF \E p \in Pkgs : d = SrcDir(p)
  THEN w.imports[CHOOSE p \in Pkgs : d = SrcDir(p)]
  ELSE <<>>

\* the directories below the directory at absolute path d, as filepath.Walk
\* visits them (lexical order), each relative to d
SubDirs(d) == IF d = SrcDir(PkgR) THEN << <<"a">>, <<"b">> >> ELSE <<>>

\* errors: nil, or the message (its leading text and what it is about)
NoError == <<>>
Errorf(text, about) == <<text, about>>

\* a nil *build.Package / *tc.Package
NilPkg == <<>>

BuildPackage(importPath, dir, goFiles) ==
  [ImportPath |-> importPath, Dir |-> dir, GoFiles |-> goFiles]

\* b.context.Import(dir, cwd, mode): go/build returns the package together
\* with a NoGoError when the directory has no Go files
ContextImport(w, dir) ==
  LET Found(importPath, status) ==
        IF status = "missing"
        THEN [pkg |-> NilPkg, err |-> Errorf("cannot find package", dir)]
        ELSE IF status = "nogo"
        THEN [pkg |-> <<BuildPackage(importPath, SrcDir(importPath), <<>>)>>,
              err |-> Errorf("no buildable Go source files in", dir)]
        ELSE [pkg |-> <<BuildPackage(importPath, SrcDir(importPath), <<"f1.go", "f2.go">>)>>,
              err |-> NoError]
  IN Found(ResolvedImportPath(dir), DirStatus(w, SrcDir(ResolvedImportPath(dir))))

\* err.(*build.NoGoError)
IsNoGoError(err) == err # NoError /\ err[1] = "no buildable Go source files in"

\* Builder.importWithMode: the package is dropped when Import gave an error
importWithMode(w, dir, mode) ==
  LET Got(r) ==
        IF mode = "FindOnly"
        THEN (IF r.pkg = NilPkg THEN r ELSE [pkg |-> r.pkg, err |-> NoError])
        ELSE (IF r.err # NoError THEN [pkg |-> NilPkg, err |-> r.err] ELSE r)
  IN Got(ContextImport(w, dir))

\* canonicalizeImportPath: what follows the first "/vendor/"
canonicalizeImportPath(importPath) ==
  LET at == {i \in 2..(Len(importPath) - 1) : importPath[i] = "vendor"}
  IN IF at = {} THEN importPath
     ELSE SubSeq(importPath, (CHOOSE i \in at : \A j \in at : i <= j) + 1, Len(importPath))

\* isErrPackageNotFound: the message starts with `unable to import "`
isErrPackageNotFound(err) == err # NoError /\ err[1] = "unable to import"

\* a Go map: m[k] = v, and m[k] with the zero value for an absent key
Put(m, k, v) == [x \in DOMAIN m \cup {k} |-> IF x = k THEN v ELSE m[x]]
Get(m, k, zero) == IF k \in DOMAIN m THEN m[k] ELSE zero

\* parser.New()
NewBuilder ==
  [buildPackages |-> <<>>, parsed |-> <<>>, absPaths |-> <<>>,
   typeCheckedPackages |-> <<>>, userRequested |-> <<>>,
   endLineToCommentGroup |-> <<>>, importGraph |-> <<>>]

\* Builder.importBuildPackage
importBuildPackage(w, b, dir) ==
  LET Save(buildPkg) ==
        LET saved == [b EXCEPT !.buildPackages = Put(@, dir, buildPkg)]
            canonicalPackage == canonicalizeImportPath(buildPkg.ImportPath)
        IN IF dir # canonicalPackage
           THEN IF canonicalPackage \in DOMAIN saved.buildPackages
                THEN [b |-> saved, pkg |-> <<saved.buildPackages[canonicalPackage]>>,
                      err |-> NoError]
                ELSE [b |-> [saved EXCEPT !.buildPackages = Put(@, canonicalPackage, buildPkg)],
                      pkg |-> <<buildPkg>>, err |-> NoError]
           ELSE [b |-> saved, pkg |-> <<buildPkg>>, err |-> NoError]
      FindOnly(r) ==
        IF r.err # NoError THEN [b |-> b, pkg |-> NilPkg, err |-> r.err]
        ELSE IF r.pkg = NilPkg
        THEN [b |-> b, pkg |-> NilPkg, err |-> Errorf("import failed in dir", dir)]
        ELSE Save(r.pkg[1])
      Imported(r) ==
        IF r.err # NoError /\ ~IsNoGoError(r.err)
        THEN [b |-> b, pkg |-> NilPkg, err |-> Errorf("unable to import", dir)]
        ELSE IF r.pkg = NilPkg THEN FindOnly(importWithMode(w, dir, "FindOnly"))
        ELSE Save(r.pkg[1])
  IN IF dir \in DOMAIN b.buildPackages
     THEN [b |-> b, pkg |-> <<b.buildPackages[dir]>>, err |-> NoError]
     ELSE Imported(importWithMode(w, dir, "ImportComment"))

\* a file: the directory it is in and its name
FilePath(dir, file) == [dir |-> dir, file |-> file]

\* parser.ParseFile fails on the second file of a "partial" directory
ParseFails(w, path) == DirStatus(w, path.dir) = "partial" /\ path.file = "f2.go"

\* a comment group: the line of its first comment, the line it ends on, and
\* its text, line by line
CommentGroup(first, line, text) == [first |-> first, line |-> line, text |-> text]

\* the comment groups of a parsed file (p.Comments).  f1.go declares the type
\* T of the package: below one comment line in r; below a doc block, a blank
\* line and a one-line comment in r/a; below a doc block and a blank line in
\* r/b; below a license, a blank line and a two-line comment in the vendored
\* r/b.  f2.go has a comment on line 4.
FileComments(path) ==
  IF path.file # "f1.go" THEN {CommentGroup(4, 4, <<"other file">>)}
  ELSE IF path.dir = SrcDir(PkgR) THEN {CommentGroup(4, 4, <<"T of r">>)}
  ELSE IF path.dir = SrcDir(PkgA)
  THEN {CommentGroup(1, 2, <<"doc", "block">>), CommentGroup(4, 4, <<"one-liner">>)}
  ELSE IF path.dir = SrcDir(PkgB) THEN {CommentGroup(2, 3, <<"doc", "block">>)}
  ELSE {CommentGroup(1, 2, <<"license">>), CommentGroup(4, 5, <<"T of", "vendored b">>)}

\* the line of f1.go on which the type T is declared
DeclLine(dir) == IF dir = SrcDir(DirVendorB) THEN 6 ELSE 5

\* a *ast.CommentGroup: nil, or a group
NilGroup == <<>>
\* CommentGroup.Text, which is safe on nil
Text(c) == IF c = NilGroup THEN <<>> ELSE c[1].text

\* Builder.addFile
\* a flag that is set to the flag of the last call
OrRequestedNot(b, pkgPath, userRequested) == userRequested

\* importPackage and addFile: userRequested || b.userRequested[pkgPath]
OrRequested(b, pkgPath, userRequested) ==
  userRequested \/ Get(b.userRequested, pkgPath, FALSE)

\* an addFile that never finds the file in the list
AlreadyParsedNever(b, pkgPath, path) == FALSE

\* addFile: the loop over b.parsed[pkgPath] that looks for path
AlreadyParsed(b, pkgPath, path) ==
  \E i \in 1..Len(Get(b.parsed, pkgPath, <<>>)) : b.parsed[pkgPath][i] = path

addFile(w, b, pkgPath, path, userRequested) ==
  IF AlreadyParsed(b, pkgPath, path)
  THEN [b |-> b, err |-> NoError]
  ELSE IF ParseFails(w, path) THEN [b |-> b, err |-> Errorf("syntax error", path)]
  ELSE [b |-> [b EXCEPT
                 !.userRequested = Put(@, pkgPath, OrRequested(b, pkgPath, userRequested)),
                 !.parsed = Put(@, pkgPath, Append(Get(@, pkgPath, <<>>), path)),
                 !.endLineToCommentGroup =
                    [k \in DOMAIN @ \cup {[file |-> path, line |-> c.line] : c \in FileComments(path)}
                       |-> IF k.file = path
                           THEN <<CHOOSE c \in FileComments(path) : c.line = k.line>>
                           ELSE @[k]],
                 !.importGraph =
                    Put(@, pkgPath, Get(@, pkgPath, {})
                                    \cup {DirImports(w, path.dir)[i] :
                                            i \in 1..Len(DirImports(w, path.dir))})],
        err |-> NoError]

\* Builder.addDir, the loop over the files from the i-th on
RECURSIVE addFiles(_, _, _, _, _, _)
addFiles(w, b, pkgPath, buildPkg, i, userRequested) ==
  LET Added(r) ==
        IF r.err # NoError
        THEN [b |-> r.b, err |-> Errorf("while parsing", FilePath(buildPkg.Dir, buildPkg.GoFiles[i]))]
        ELSE addFiles(w, r.b, pkgPath, buildPkg, i + 1, userRequested)
  IN IF i > Len(buildPkg.GoFiles) THEN [b |-> b, err |-> NoError]
     ELSE Added(addFile(w, b, pkgPath, FilePath(buildPkg.Dir, buildPkg.GoFiles[i]),
                        userRequested))

\* Builder.addDir
addDir(w, b, dir, userRequested) ==
  LET Files(b1, buildPkg, pkgPath) ==
        IF pkgPath \in DOMAIN b1.absPaths
        THEN IF buildPkg.Dir # b1.absPaths[pkgPath]
             THEN [b |-> b1, err |-> Errorf("previously resolved", pkgPath)]
             ELSE addFiles(w, b1, pkgPath, buildPkg, 1, userRequested)
        ELSE addFiles(w, [b1 EXCEPT !.absPaths = Put(@, pkgPath, buildPkg.Dir)],
                      pkgPath, buildPkg, 1, userRequested)
      Built(r) ==
        IF r.err # NoError THEN [b |-> r.b, err |-> r.err]
        ELSE Files(r.b, r.pkg[1], canonicalizeImportPath(r.pkg[1].ImportPath))
  IN Built(importBuildPackage(w, b, dir))

\* importPackage: the canonical path of dir when its build package is known
CanonicalOr(b, dir) ==
  IF dir \in DOMAIN b.buildPackages
  THEN canonicalizeImportPath(b.buildPackages[dir].ImportPath)
  ELSE dir

\* the imports the type checker resolves for the parsed files of a package:
\* each import path once, in the order of the files
RECURSIVE Dedupe(_)
Dedupe(s) ==
  IF s = <<>> THEN <<>>
  ELSE LET rest == Dedupe(SubSeq(s, 1, Len(s) - 1))
       IN IF \E i \in 1..(Len(s) - 1) : s[i] = s[Len(s)] THEN rest
          ELSE Append(rest, s[Len(s)])

RECURSIVE FilesImports(_, _)
FilesImports(w, files) ==
  IF files = <<>> THEN <<>>
  ELSE DirImports(w, files[1].dir) \o FilesImports(w, Tail(files))

\* the *tc.Package Check returns: its path, its name, and for each import
\* whether the import callback gave a package
TcPackage(pkgPath, imports) ==
  [Path |-> pkgPath, Name |-> pkgPath[Len(pkgPath)], Imports |-> imports]

\* the error Check returns: the first the checker met, from an import that
\* failed or from the files themselves
CheckError(w, b, pkgPath, imports) ==
  IF (\E i \in 1..Len(imports) : ~imports[i].ok)
     \/ DirStatus(w, b.absPaths[pkgPath]) = "typeerr"
  THEN Errorf("type checker", pkgPath)
  ELSE NoError

\* importPackage: what it returns for the (pkg, err) of typeCheckPackage
ImportResult(pkg, err, ignoreError) ==
  IF err # NoError /\ ~(ignoreError /\ pkg # NilPkg)
  THEN [pkg |-> NilPkg, err |-> err]
  ELSE [pkg |-> pkg, err |-> NoError]

\* sort.Strings on paths: byte order, segment by segment ("/" sorts below
\* every letter, so a path sorts before the paths below it)
SegmentOrder == <<".", "a", "b", "r", "src", "v", "vendor">>
SegmentRank(s) == CHOOSE i \in 1..Len(SegmentOrder) : SegmentOrder[i] = s
StringLess(p, q) ==
  \E k \in 1..Len(q) :
     /\ \A j \in 1..(k - 1) : j <= Len(p) /\ p[j] = q[j]
     /\ k > Len(p) \/ SegmentRank(p[k]) < SegmentRank(q[k])

\* a sort.Strings that leaves the slice as it is
SortStringsNot(s) == s

RECURSIVE SortStrings(_)
SortStrings(s) ==
  IF s = <<>> THEN <<>>
  ELSE LET Insert(sorted, x) ==
             SelectSeq(sorted, LAMBDA y : StringLess(y, x)) \o <<x>>
               \o SelectSeq(sorted, LAMBDA y : ~StringLess(y, x))
       IN Insert(SortStrings(Tail(s)), Head(s))

\* `for k := range m` yields the keys of a Go map in an order that is not
\* specified: RangeOrders are the orders a call may meet, Range the keys of a
\* map as the order yields them
RangeOrders ==
  {o \in [1..Cardinality(Pkgs) -> Pkgs] : \A i, j \in 1..Cardinality(Pkgs) : o[i] = o[j] => i = j}
RangeKeys(keys, order) == SelectSeq(order, LAMBDA k : k \in keys)

\* walkType of the named struct type T of package pkgPath, whose fields are
\* one per import, of the type T of the imported package (an import that did
\* not resolve leaves a field of the invalid type)
RECURSIVE walkPackageType(_, _, _)
RECURSIVE walkImportFields(_, _, _, _, _)
walkImportFields(b, st, out, imports, i) ==
  LET Member(r) ==
        walkImportFields(b, [r.st EXCEPT !.nd[out].Members =
                                  Append(@, [Name |-> imports[i].path[Len(imports[i].path)],
                                             Embedded |-> FALSE, Tags |-> "",
                                             Type |-> r.ret, CommentLines |-> splitLines(<<>>)])],
                         out, imports, i + 1)
      Invalid(r) ==
        IF KindKnown(r.st.nd[r.ret]) THEN r
        ELSE [st |-> [r.st EXCEPT !.nd[r.ret].Kind = Unsupported], ret |-> r.ret]
  IN IF i > Len(imports) THEN [st |-> st, ret |-> out]
     ELSE IF imports[i].ok THEN Member(walkPackageType(b, st, imports[i].path))
     ELSE Member(Invalid(UniverseType(st, MkName(EmptyString, <<"invalid type">>))))

walkPackageType(b, st, pkgPath) ==
  LET Named(r) ==
        IF KindKnown(r.st.nd[r.ret]) THEN r
        ELSE walkImportFields(b, [r.st EXCEPT !.nd[r.ret].Kind = Struct], r.ret,
                              b.typeCheckedPackages[pkgPath][1].Imports, 1)
  IN Named(UniverseType(st, MkName(pkgPath, <<"T">>)))

\* Universe.AddImports for the sorted import paths from the i-th on
RECURSIVE AddImports(_, _, _, _)
\* an AddImports whose assignment makes a new map of the one import
AddImportsOverwrite(st, packagePath, importPaths, i) ==
  LET Linked(p, q) ==
        AddImports([q.st EXCEPT !.pk[p.ret].Imports = (importPaths[i] :> q.ret)],
                   packagePath, importPaths, i + 1)
      Into(p) == Linked(p, UniversePackage(p.st, importPaths[i]))
  IN IF i > Len(importPaths) THEN st
     ELSE Into(UniversePackage(st, packagePath))

AddImports(st, packagePath, importPaths, i) ==
  LET Linked(p, q) ==
        AddImports([q.st EXCEPT !.pk[p.ret].Imports = Put(@, importPaths[i], q.ret)],
                   packagePath, importPaths, i + 1)
      Into(p) == Linked(p, UniversePackage(p.st, importPaths[i]))
  IN IF i > Len(importPaths) THEN st
     ELSE Into(UniversePackage(st, packagePath))

\* a findTypesIn that leaves no package out
NotUserRequestedNever(b, pkgPath) == FALSE

\* findTypesIn: is the package left out of the Universe?
NotUserRequested(b, pkgPath) == ~Get(b.userRequested, pkgPath, FALSE)

\* a priorCommentLines that looks at the line of pos itself
priorCommentLinesAtPos(b, pos, lines) ==
  Get(b.endLineToCommentGroup, [file |-> pos.file, line |-> pos.line], NilGroup)

\* Builder.priorCommentLines: the comment group that ends `lines` above pos
priorCommentLines(b, pos, lines) ==
  Get(b.endLineToCommentGroup, [file |-> pos.file, line |-> pos.line - lines], NilGroup)

\* obj.Pos() of the type T of package pkgPath: in the first file of the package
TypePos(b, pkgPath) ==
  [file |-> b.parsed[pkgPath][1], line |-> DeclLine(b.parsed[pkgPath][1].dir)]

\* findTypesIn: the comments of the type t declared at pos
SetComments(b, st, t, pos) ==
  LET Closest(c1) ==
        [st EXCEPT
           !.nd[t].CommentLines = splitLines(Text(c1)),
           !.nd[t].SecondClosestCommentLines =
              IF c1 = NilGroup THEN splitLines(Text(priorCommentLines(b, pos, 2)))
              ELSE splitLines(Text(priorCommentLines(
                                     b, [file |-> pos.file, line |-> c1[1].first], 2)))]
  IN Closest(priorCommentLines(b, pos, 1))

\* Builder.findTypesIn
findTypesIn(b, st, pkgPath, order) ==
  LET Walked(r) == SetComments(b, r.st, r.ret, TypePos(b, pkgPath))
      Keep(p, pkg) ==
        [st |-> AddImports(
                  Walked(walkPackageType(b, [p.st EXCEPT !.pk[p.ret].Name = pkg.Name,
                                                         !.pk[p.ret].Path = pkg.Path,
                                                         !.pk[p.ret].SourcePath = b.absPaths[pkgPath]],
                                         pkgPath)),
                  pkgPath, SortStrings(RangeKeys(Get(b.importGraph, pkgPath, {}), order)), 1),
         err |-> NoError]
  IN IF Get(b.typeCheckedPackages, pkgPath, NilPkg) = NilPkg
     THEN [st |-> st, err |-> Errorf("package is not known", pkgPath)]
     ELSE IF NotUserRequested(b, pkgPath) THEN [st |-> st, err |-> NoError]
     ELSE Keep(UniversePackage(st, pkgPath), b.typeCheckedPackages[pkgPath][1])

\* a FindTypes that returns the Universe built so far with the error
FailedWithPartial(st, err) == [u |-> <<st>>, err |-> err]

\* Builder.FindTypes: return nil, err
Failed(st, err) == [u |-> <<>>, err |-> err]

\* Builder.FindTypes, the loop over the sorted package paths from the i-th on
RECURSIVE findTypesFrom(_, _, _, _, _)
findTypesFrom(b, st, pkgPaths, i, order) ==
  LET Found(r) ==
        IF r.err # NoError THEN Failed(r.st, r.err)
        ELSE findTypesFrom(b, r.st, pkgPaths, i + 1, order)
  IN IF i > Len(pkgPaths) THEN [u |-> <<st>>, err |-> NoError]
     ELSE Found(findTypesIn(b, st, pkgPaths[i], order))

\* Builder.FindTypes: the Universe (nil on error) and the error, when the
\* maps are ranged over in the given order
FindTypes(b, order) ==
  findTypesFrom(b, EmptyUniverse(BuiltinNodes),
                SortStrings(RangeKeys(DOMAIN b.parsed, order)), 1, order)

\* FindTypes was not called since the Builder last changed
NotCalled == [u |-> <<>>, err |-> <<"not called">>]

(***************************************************************************)
(* The Builder's operations.  importPackage and typeCheckPackage call each *)
(* other through the type checker's import callback, so they run as frames *)
(* of the call stack bstack; one frame is one call of importPackage.       *)
(***************************************************************************)
ImportFrame(dir, userRequested) ==
  [dir |-> dir, userRequested |-> userRequested, pc |-> "start", pkgPath |-> <<>>,
   ignoreError |-> FALSE, imports |-> <<>>, i |-> 1, resolved |-> <<>>]

BTop == bstack[Len(bstack)]
Popped == SubSeq(bstack, 1, Len(bstack) - 1)

NoCall == [op |-> "", dir |-> <<>>, phase |-> "", i |-> 1, circular |-> FALSE]
NoResult == [pkg |-> NilPkg, err |-> NoError, dir |-> <<>>, userRequested |-> FALSE]

\* what the call f of importPackage returns, kept with the arguments of the call
Returns(f, r) ==
  [pkg |-> r.pkg, err |-> r.err, dir |-> f.dir, userRequested |-> f.userRequested]

BuilderIdle == cur.op = "" /\ bstack = <<>>

\* a step inside a call: the Builder, the stack, the value returned, the call
BuilderStep(b1, stack1, ret, cur1) ==
  /\ builder' = b1
  /\ bstack' = stack1
  /\ bret' = ret
  /\ cur' = cur1
  /\ UNCHANGED <<world, history, found, checks, walkVars>>

\* the step in which typeCheckPackage calls Check for pkgPath
CheckStep(b1, stack1, pkgPath) ==
  /\ builder' = b1
  /\ bstack' = stack1
  /\ checks' = Put(checks, pkgPath, Get(checks, pkgPath, 0) + 1)
  /\ UNCHANGED <<world, bret, cur, history, found, walkVars>>

\* a typeCheckPackage that never finds a package in b.typeCheckedPackages
AlreadyCheckedNever(b, pkgPath) == FALSE

\* typeCheckPackage: _, ok := b.typeCheckedPackages[pkgPath]
AlreadyChecked(b, pkgPath) == pkgPath \in DOMAIN b.typeCheckedPackages

\* a typeCheckPackage that starts Check without the mark
MarkInProgressNot(b, pkgPath) == b

\* typeCheckPackage: b.typeCheckedPackages[pkgPath] = nil, right before Check
MarkInProgress(b, pkgPath) == [b EXCEPT !.typeCheckedPackages = Put(@, pkgPath, NilPkg)]

\* importPackage from line 234 on: userRequested, then typeCheckPackage up to
\* the call of Check, which runs as the frame's next steps
TypeCheck(f, b0, pkgPath, ignoreError) ==
  LET b1 == [b0 EXCEPT !.userRequested =
                          Put(@, pkgPath, OrRequested(b0, pkgPath, f.userRequested))]
  IN IF AlreadyChecked(b1, pkgPath)
     THEN IF b1.typeCheckedPackages[pkgPath] # NilPkg
          THEN BuilderStep(b1, Popped,
                           Returns(f, ImportResult(b1.typeCheckedPackages[pkgPath], NoError,
                                                   ignoreError)),
                           cur)
          ELSE BuilderStep(b1, Popped,
                           Returns(f, ImportResult(NilPkg,
                                                   Errorf("circular dependency", pkgPath),
                                                   ignoreError)),
                           [cur EXCEPT !.circular = TRUE])
     ELSE IF pkgPath \notin DOMAIN b1.parsed
     THEN BuilderStep(b1, Popped,
                      Returns(f, ImportResult(NilPkg, Errorf("no files for pkg", pkgPath),
                                              ignoreError)),
                      cur)
     ELSE CheckStep(MarkInProgress(b1, pkgPath),
                    [bstack EXCEPT ![Len(bstack)] =
                       [f EXCEPT !.pc = "check", !.pkgPath = pkgPath,
                                 !.ignoreError = ignoreError,
                                 !.imports = Dedupe(FilesImports(world, b1.parsed[pkgPath])),
                                 !.i = 1]],
                    pkgPath)

\* Builder.importPackage, from its entry to its return or to the call of Check
ImportPackage ==
  /\ bstack # <<>>
  /\ BTop.pc = "start"
  /\ LET Added(r) ==
           IF r.err # NoError
           THEN IF isErrPackageNotFound(r.err)
                THEN BuilderStep(r.b, Popped,
                                 Returns(BTop, [pkg |-> NilPkg, err |-> NoError]), cur)
                ELSE BuilderStep(r.b, Popped,
                                 Returns(BTop, [pkg |-> NilPkg, err |-> r.err]), cur)
           ELSE TypeCheck(BTop, r.b, CanonicalOr(r.b, BTop.dir), TRUE)
     IN IF CanonicalOr(builder, BTop.dir) \notin DOMAIN builder.parsed
        THEN Added(addDir(world, builder, BTop.dir, BTop.userRequested))
        ELSE TypeCheck(BTop, builder, CanonicalOr(builder, BTop.dir), FALSE)

\* Check meets an import: importAdapter.Import calls importPackage(path, false)
CheckImport ==
  /\ bstack # <<>>
  /\ BTop.pc = "check"
  /\ BTop.i <= Len(BTop.imports)
  /\ BuilderStep(builder, Append([bstack EXCEPT ![Len(bstack)].pc = "imported"],
                           ImportFrame(BTop.imports[BTop.i], FALSE)),
                 bret, cur)

\* Check takes what the import callback returned: the import is resolved when
\* a package came back without an error
CheckImported ==
  /\ bstack # <<>>
  /\ BTop.pc = "imported"
  /\ BuilderStep(builder, [bstack EXCEPT ![Len(bstack)] =
                       [BTop EXCEPT !.pc = "check", !.i = @ + 1,
                                    !.resolved = Append(@, [path |-> BTop.imports[BTop.i],
                                                            ok |-> bret.err = NoError
                                                                   /\ bret.pkg # NilPkg])]],
                 bret, cur)

\* a typeCheckPackage that returns without recording what Check returned
RecordResultNot(b, pkgPath, pkg) == b

\* typeCheckPackage: b.typeCheckedPackages[pkgPath] = pkg, whether or not
\* there was an error; pkg is the package go/types made for the path
RecordResult(b, pkgPath, pkg) == [b EXCEPT !.typeCheckedPackages = Put(@, pkgPath, pkg)]

\* Check returns: typeCheckPackage records the package, importPackage decides
\* what to do with the error
CheckDone ==
  /\ bstack # <<>>
  /\ BTop.pc = "check"
  /\ BTop.i > Len(BTop.imports)
  /\ BuilderStep(RecordResult(builder, BTop.pkgPath,
                              <<TcPackage(BTop.pkgPath, BTop.resolved)>>),
                 Popped,
                 Returns(BTop, ImportResult(<<TcPackage(BTop.pkgPath, BTop.resolved)>>,
                                            CheckError(world, builder, BTop.pkgPath,
                                                       BTop.resolved),
                                            BTop.ignoreError)),
                 cur)

\* a call of AddDir or AddDirRecursive starts with importPackage(dir, true)
StartCall(op, dir, phase) ==
  /\ BuilderIdle
  /\ Len(history) < MaxCalls
  /\ cur' = [op |-> op, dir |-> dir, phase |-> phase, i |-> 1, circular |-> FALSE]
  /\ bstack' = <<ImportFrame(dir, TRUE)>>
  /\ found' = NotCalled
  /\ UNCHANGED <<world, builder, bret, history, checks, walkVars>>

\* the call returns err to the user
EndCall(err) ==
  /\ history' = Append(history, [op |-> cur.op, dir |-> cur.dir, err |-> err,
                                 circular |-> cur.circular])
  /\ cur' = NoCall
  /\ UNCHANGED <<world, builder, bstack, bret, found, checks, walkVars>>

\* Builder.AddDir
AddDir(dir) == StartCall("AddDir", dir, "")

AddDirReturn ==
  /\ cur.op = "AddDir"
  /\ bstack = <<>>
  /\ EndCall(bret.err)

\* Builder.AddDirRecursive
AddDirRecursive(dir) == StartCall("AddDirRecursive", dir, "root")

\* AddDirRecursive after the import of the root
RecursiveRoot ==
  /\ cur.op = "AddDirRecursive"
  /\ cur.phase = "root"
  /\ bstack = <<>>
  /\ IF bret.err # NoError THEN EndCall(bret.err)
     ELSE IF cur.dir \notin DOMAIN builder.buildPackages
     THEN EndCall(Errorf("can't import package at dir", cur.dir))
     ELSE /\ cur' = [cur EXCEPT !.phase = "walk", !.i = 1]
          /\ UNCHANGED <<world, builder, bstack, bret, history, found, checks, walkVars>>

\* filepath.Walk visits the next directory below the root
RecursiveWalk ==
  /\ cur.op = "AddDirRecursive"
  /\ cur.phase = "walk"
  /\ bstack = <<>>
  /\ cur.i <= Len(SubDirs(builder.buildPackages[cur.dir].Dir))
  /\ BuilderStep(builder,
                 <<ImportFrame(canonicalizeImportPath(builder.buildPackages[cur.dir].ImportPath)
                               \o SubDirs(builder.buildPackages[cur.dir].Dir)[cur.i], TRUE)>>,
                 bret, [cur EXCEPT !.i = @ + 1])

RecursiveReturn ==
  /\ cur.op = "AddDirRecursive"
  /\ cur.phase = "walk"
  /\ bstack = <<>>
  /\ cur.i > Len(SubDirs(builder.buildPackages[cur.dir].Dir))
  /\ EndCall(NoError)

\* Builder.FindTypes
CallFindTypes ==
  /\ BuilderIdle
  /\ found = NotCalled
  /\ \E order \in RangeOrders : found' = FindTypes(builder, order)
  /\ UNCHANGED <<world, builder, bstack, bret, cur, history, checks, walkVars>>

BuilderNew ==
  /\ builder = NewBuilder
  /\ bstack = <<>>
  /\ bret = NoResult
  /\ cur = NoCall
  /\ history = <<>>
  /\ found = NotCalled
  /\ checks = <<>>

(***************************************************************************)
(* Top-level operations on a Universe: the accessors called by a user of   *)
(* package types, and findTypesIn's walk of one type name of the scope.    *)
(***************************************************************************)
\* the names the accessors are called with
TypeNames ==
  { MkName(EmptyString, <<"int">>), MkName(EmptyString, <<"int8">>),
    MkName(EmptyString, <<"uint8">>), MkName(<<"p">>, <<"Point">>),
    MkName(<<"p">>, <<"Zero">>) }
DeclNames == { MkName(<<"p">>, <<"Point">>) }
PackagePaths == { EmptyString, <<"p">> }
DeclFamilies == {"Functions", "Variables", "Constants"}

Idle == stack = <<>> /\ pending = NoDecl

\* u.Type(n)
CallType(n) ==
  /\ Idle /\ ops < MaxOps
  /\ LET a == UniverseType(uni, n)
     IN uni' = a.st /\ rv' = RetNode(a.ret)
  /\ ops' = ops + 1
  /\ UNCHANGED <<stack, pending, builderVars>>

\* u.Function(n), u.Variable(n), u.Constant(n)
CallDecl(fam, n) ==
  /\ Idle /\ ops < MaxOps
  /\ LET a == UniverseDecl(uni, fam, n)
     IN uni' = a.st /\ rv' = RetNode(a.ret)
  /\ ops' = ops + 1
  /\ UNCHANGED <<stack, pending, builderVars>>

\* u.Package(path)
CallPackage(path) ==
  /\ Idle /\ ops < MaxOps
  /\ LET a == UniversePackage(uni, path)
     IN uni' = a.st /\ rv' = RetNode(a.ret)
  /\ ops' = ops + 1
  /\ UNCHANGED <<stack, pending, builderVars>>

\* findTypesIn: t := b.walkType(*u, nil, tn.Type())
StartWalk(d) ==
  /\ Idle /\ ops < MaxOps
  /\ stack' = <<WalkFrame(d.type, <<>>)>>
  /\ pending' = d
  /\ ops' = ops + 1
  /\ UNCHANGED <<uni, rv, builderVars>>

\* the frame of b.addFunction(*u, nil, tf), b.addVariable(*u, nil, tv) or
\* b.addConstant(*u, nil, tconst)
ObjectFrame(o) ==
  [WalkFrame(o, <<>>) EXCEPT
     !.op = CASE Objs[o].word = "func " -> "addFunction"
              [] Objs[o].word = "var" -> "addVariable"
              [] OTHER -> "addConstant"]

\* findTypesIn: an object of the scope that is a function without receiver,
\* a variable or a constant; only a function gets comments afterwards
StartObject(o) ==
  /\ Idle /\ ops < MaxOps
  /\ stack' = <<ObjectFrame(o)>>
  /\ pending' = IF Objs[o].word = "func " THEN TypeDecl(o, Objs[o].c1, Objs[o].c2) ELSE NoDecl
  /\ ops' = ops + 1
  /\ UNCHANGED <<uni, rv, builderVars>>

\* findTypesIn: the comments of the type name are stored in the node returned
FinishType ==
  /\ stack = <<>> /\ pending # NoDecl
  /\ uni' = [uni EXCEPT !.nd[rv.node].CommentLines = splitLines(pending.c1),
                        !.nd[rv.node].SecondClosestCommentLines = splitLines(pending.c2)]
  /\ pending' = NoDecl
  /\ UNCHANGED <<stack, rv, ops, builderVars>>

WalkStep ==
  \/ WalkStruct \/ WalkMap \/ WalkPointer \/ WalkSlice \/ WalkArray \/ WalkChan
  \/ WalkBasic \/ WalkSignature \/ WalkInterface \/ WalkNamed \/ WalkDefault
  \/ ConvertSignature
  \/ addFunction \/ addVariable \/ addConstant

WalkNew ==
  /\ uni = EmptyUniverse(BuiltinNodes)
  /\ stack = <<>>
  /\ rv = RetNode(Nil)
  /\ pending = NoDecl
  /\ ops = 0

WalkInit == WalkNew /\ world = QuietWorld /\ BuilderNew

WalkNext ==
  \/ \E n \in TypeNames : CallType(n)
  \/ \E fam \in DeclFamilies, n \in DeclNames : CallDecl(fam, n)
  \/ \E path \in PackagePaths : CallPackage(path)
  \/ \E d \in Decls : StartWalk(d)
  \/ \E o \in DOMAIN Objs : StartObject(o)
  \/ FinishType
  \/ WalkStep

SpecWalk == WalkInit /\ [][WalkNext]_vars

\* the walk is sequential code: a started call always takes its next step
SpecWalkFair == SpecWalk /\ WF_vars(WalkStep \/ FinishType)


Init == world \in Worlds /\ BuilderNew /\ WalkNew

Next ==
  \/ \E dir \in Dirs : AddDir(dir)
  \/ AddDirReturn
  \/ \E dir \in RecursiveRoots : AddDirRecursive(dir)
  \/ RecursiveRoot
  \/ RecursiveWalk
  \/ RecursiveReturn
  \/ ImportPackage
  \/ CheckImport
  \/ CheckImported
  \/ CheckDone
  \/ CallFindTypes

Spec == Init /\ [][Next]_vars

\* the Builder is sequential code: a call that has started takes its next
\* step, up to its return
BuilderRun ==
  \/ AddDirReturn \/ RecursiveRoot \/ RecursiveWalk \/ RecursiveReturn
  \/ CheckImport \/ CheckImported \/ CheckDone

\* importPackage is enabled exactly when its frame is on top of the stack at
\* its entry; weak fairness of ImportPackage, with ENABLED written out
ImportPackageRuns ==
  \/ []<>(~(bstack # <<>> /\ BTop.pc = "start"))
  \/ []<><<ImportPackage>>_vars

SpecFair == Spec /\ WF_vars(BuilderRun) /\ ImportPackageRuns


(***************************************************************************)
(* Reading a Universe.                                                     *)
(***************************************************************************)
\* the node registered for name n in the Types of its package, Nil when none
NodeAt(n) ==
  IF n.Package \in DOMAIN uni.u /\ n.Name \in DOMAIN uni.pk[uni.u[n.Package]].Types
  THEN uni.pk[uni.u[n.Package]].Types[n.Name]
  ELSE Nil

\* the Name walkType registers the resolved type t under when no override is given
NameOf(t) ==
  IF TC[t].cat = "Basic" THEN MkName(EmptyString, <<TC[t].name>>)
  ELSE tcNameToName(TypeString[t])

Made(t) == NodeAt(NameOf(t)) # Nil /\ uni.nd[NodeAt(NameOf(t))].Kind # Unknown
TheNode(t) == uni.nd[NodeAt(NameOf(t))]

NamedTypes == {t \in TcKeys : TC[t].cat = "Named"}
\* the named types whose underlying type is an anonymous composite
FlattenedTypes ==
  {t \in NamedTypes :
     TC[TC[t].under].cat \in {"Struct", "Pointer", "Array", "Chan", "Signature", "Interface"}}
StructTypes == {t \in FlattenedTypes : TC[TC[t].under].cat = "Struct"}

\* types.Kind of a composite category
KindOfCat(cat) ==
  CASE cat = "Struct" -> Struct [] cat = "Map" -> Map [] cat = "Pointer" -> Pointer
    [] cat = "Slice" -> Slice [] cat = "Array" -> Array [] cat = "Chan" -> Chan
    [] cat = "Signature" -> Func [] cat = "Interface" -> Interface
    [] OTHER -> Unsupported

\* the nodes made for the Type of name n (a declaration of that name, a
\* function, variable or constant, is a node of another family)
TypeNodes(n) ==
  {t \in DOMAIN uni.nd : uni.nd[t].Name = n /\ uni.nd[t].Kind # DeclarationOf}

\* the calls of the log made for the Type of name n
TypeCalls(n) ==
  {i \in 1..Len(uni.log) :
     uni.log[i].fam = "Types" /\ uni.log[i].pkg = n.Package /\ uni.log[i].name = n.Name}

(***************************************************************************)
(* The claims.                                                             *)
(***************************************************************************)

\* C1: whatever accessor calls were made before, two calls of one accessor
\* (Type, Function, Variable, Constant, Package) with the same package path and
\* local name return the identical node, and the node the family's map holds
\* for that name is the one every call returned.
C1_AccessorsReturnIdenticalNode ==
  /\ \A i, j \in 1..Len(uni.log) :
       (uni.log[i].fam = uni.log[j].fam /\ uni.log[i].pkg = uni.log[j].pkg
        /\ uni.log[i].name = uni.log[j].name) => uni.log[i].ret = uni.log[j].ret
  /\ \A i \in 1..Len(uni.log) :
       LET c == uni.log[i]
       IN /\ c.pkg \in DOMAIN uni.u
          /\ IF c.fam = "Package" THEN uni.u[c.pkg] = c.ret
             ELSE /\ c.name \in DOMAIN uni.pk[uni.u[c.pkg]][c.fam]
                  /\ uni.pk[uni.u[c.pkg]][c.fam][c.name] = c.ret

\* a Universe whose Type accessor was asked twice for one name of package p
C1_Witness ==
  /\ Idle
  /\ \E i, j \in 1..Len(uni.log) :
       i < j /\ uni.log[i].fam = "Types" /\ uni.log[j].fam = "Types"
       /\ uni.log[i].pkg = <<"p">> /\ uni.log[j].pkg = <<"p">>
       /\ uni.log[i].name = uni.log[j].name /\ uni.log[i].ret = uni.log[j].ret

\* C2: first writer wins: a node whose Kind is not Unknown keeps that Kind in
\* every later step, whichever walkType call, referrer or name override
\* reaches its Name again.
C2_KindIsNeverOverwritten ==
  [][\A t \in DOMAIN uni.nd :
       uni.nd[t].Kind # Unknown => uni'.nd[t].Kind = uni.nd[t].Kind]_walkVars

\* walkType is entered from a referrer, under a name override, for a Name
\* whose node has its Kind (the method Get of Svc, met again in Sub)
C2_Witness ==
  /\ Len(stack) > 1 /\ Top.op = "walkType" /\ Top.pc = "start"
  /\ Top.use # <<>>
  /\ NodeAt(WalkName(Top)) # Nil
  /\ uni.nd[NodeAt(WalkName(Top))].Kind = Func

\* C3: every walk that was started returns (the call stack empties and never
\* reaches the depth bound), cycles included; and once the walk is over, the
\* node of *p.Node, the type of the field Next of struct Node, has the node of
\* p.Node itself as its Elem.
C3_WalkTerminates ==
  /\ [](stack # <<>> => <>(stack = <<>>))
  /\ [](Len(stack) < MaxDepth)
  /\ []((stack = <<>> /\ Made("pNode")) =>
          /\ TheNode("pNode").Kind = Pointer
          /\ TheNode("pNode").Elem = NodeAt(NameOf("Node"))
          /\ TheNode("Node").Kind = Struct
          /\ TheNode("Node").Members[1].Type = NodeAt(NameOf("pNode")))

\* the walk of the self-referential struct Node has returned
C3_Witness ==
  /\ stack = <<>> /\ pending.type = "Node"
  /\ Made("pNode") /\ Made("Node")
  /\ TheNode("pNode").Elem = NodeAt(NameOf("Node"))

\* C4: flattening: a named type over an anonymous composite has one node, at
\* the named type's identity, with the composite's Kind; it is no Alias, and
\* the Universe holds no node under the anonymous composite's own name.
C4_NamedCompositeIsOneNode ==
  \A t \in FlattenedTypes :
    /\ Made(t) =>
         /\ TheNode(t).Kind = KindOfCat(TC[TC[t].under].cat)
         /\ TheNode(t).Kind # Alias
         /\ TheNode(t).Underlying = Nil
    /\ NodeAt(tcNameToName(TypeString[TC[t].under])) = Nil
    /\ Cardinality(TypeNodes(NameOf(t))) <= 1

\* type Point struct { X int; Y int } was walked as a declaration
C4_Witness ==
  /\ stack = <<>> /\ pending.type = "Point"
  /\ Made("Point") /\ TheNode("Point").Kind = Struct
  /\ Cardinality(TypeNodes(NameOf("Point"))) = 1

\* the Members a walked struct must have: name, embedded flag, raw tag, the
\* node of the field's type, in declaration order
MembersOf(s, upto) ==
  [i \in 1..upto |->
     [Name |-> TC[s].fields[i].name, Embedded |-> TC[s].fields[i].anon,
      Tags |-> TC[s].fields[i].tag, Type |-> NodeAt(NameOf(TC[s].fields[i].type)),
      CommentLines |-> splitLines(TC[s].fields[i].doc)]]

\* C5: a walked struct with k fields has Kind Struct and exactly its k Members
\* in declaration order, however often its Name was walked (while a walk runs
\* it has a prefix of them); a field of a primitive type of the builtin table
\* references the shared builtin node, the same for every such field.
C5_StructMembers ==
  \A t \in StructTypes :
    Made(t) =>
      /\ TheNode(t).Kind = Struct
      /\ Len(TheNode(t).Members) <= Len(TC[TC[t].under].fields)
      /\ TheNode(t).Members = MembersOf(TC[t].under, Len(TheNode(t).Members))
      /\ stack = <<>> => Len(TheNode(t).Members) = Len(TC[TC[t].under].fields)
      /\ \A i \in 1..Len(TheNode(t).Members) :
           LET f == TC[TC[t].under].fields[i]
           IN (TC[f.type].cat = "Basic" /\ <<TC[f.type].name>> \in DOMAIN builtins)
                => TheNode(t).Members[i].Type = builtins[<<TC[f.type].name>>]

\* struct Point was walked, and then its Name was walked once more
C5_Witness ==
  /\ Idle
  /\ Made("Point") /\ Len(TheNode("Point").Members) = 2
  /\ TheNode("Point").Members[1].Type = TheNode("Point").Members[2].Type
  /\ \E i, j \in TypeCalls(NameOf("Point")) :
       i < j /\ uni.nd[uni.log[i].ret].Kind = Struct
       /\ \E k \in i..j : uni.log[k].fam = "Types" /\ uni.log[k].name = <<"int">>

\* the methods a walked named type must have: those of the method set of an
\* interface, those declared on it otherwise
MethodsOf(t) ==
  IF TC[TC[t].under].cat = "Interface" THEN TC[TC[t].under].methods ELSE TC[t].methods

\* the Signature of a walked function type
SignatureOf(s) ==
  [Receiver |-> IF TC[s].recv = "" THEN Nil ELSE NodeAt(NameOf(TC[s].recv)),
   Parameters |-> [i \in 1..Len(TC[s].params) |-> NodeAt(NameOf(TC[s].params[i]))],
   Results |-> [i \in 1..Len(TC[s].results) |-> NodeAt(NameOf(TC[s].results[i]))],
   Variadic |-> TC[s].variadic,
   CommentLines |-> <<>>]

\* C6: once the top-level walk has returned, every named type of the Universe
\* whose Kind is not Unknown has one Methods entry per method (declared on it,
\* or of its method set for an interface); each is a Func node whose Signature
\* holds the nodes of the parameters and results in order, the Variadic flag,
\* and the receiver's node as Receiver.
C6_MethodsAttached ==
  stack = <<>> =>
    \A t \in NamedTypes :
      Made(t) =>
        /\ DOMAIN TheNode(t).Methods = {MethodsOf(t)[i].name : i \in 1..Len(MethodsOf(t))}
        /\ \A i \in 1..Len(MethodsOf(t)) :
             LET m == MethodsOf(t)[i]
                 mt == uni.nd[TheNode(t).Methods[m.name]]
             IN /\ mt.Kind = Func
                /\ mt.Signature = <<SignatureOf(m.sig)>>
                /\ \A k \in 1..Len(mt.Signature[1].Parameters) :
                     mt.Signature[1].Parameters[k] # Nil
                /\ \A k \in 1..Len(mt.Signature[1].Results) : mt.Signature[1].Results[k] # Nil
                /\ mt.Signature[1].Receiver # Nil

\* the walk of Node has returned; Tree was first reached inside the cycle
\* Node -> *Tree -> Tree -> *Node, and has its method Size
C6_Witness ==
  /\ stack = <<>> /\ pending.type = "Node" /\ ops = 1
  /\ Made("Tree") /\ "Size" \in DOMAIN TheNode("Tree").Methods
  /\ Made("Node") /\ "Up" \in DOMAIN TheNode("Node").Methods
  /\ uni.nd[TheNode("Tree").Methods["Size"]].Signature[1].Variadic


(***************************************************************************)
(* Reading the Builder.                                                    *)
(***************************************************************************)
\* go/build cannot import what the directory reference dir resolves to
Unresolvable(dir) == DirStatus(world, SrcDir(ResolvedImportPath(dir))) = "missing"

\* b.userRequested[pkgPath]
Requested(pkgPath) == Get(builder.userRequested, pkgPath, FALSE)

\* FindTypes returned a Universe
Found == found.u # <<>>
\* the Universe FindTypes returned: its map, and the record of a path
FoundPaths == DOMAIN found.u[1].u
FoundRecord(path) == found.u[1].pk[found.u[1].u[path]]

\* the packages findTypesIn keeps: user-requested, with parsed files
Kept == {p \in DOMAIN builder.parsed : Requested(p)}

\* C7: the package-not-found failure is fatal exactly when the package was
\* explicitly requested: every AddDir call on a directory go/build cannot
\* import returned an error, and an importPackage call made by the import
\* callback for such a directory returned no error.
C7_NotFoundFatalWhenRequested ==
  /\ \A i \in 1..Len(history) :
       (history[i].op = "AddDir" /\ Unresolvable(history[i].dir))
          => history[i].err # NoError
  /\ (bret.dir # <<>> /\ ~bret.userRequested /\ Unresolvable(bret.dir))
       => bret.err = NoError

\* C8: the Universe FindTypes returns holds a record only for the empty-path
\* builtin package and for user-requested packages.
C8_OnlyRequestedHaveRecords ==
  Found => \A path \in FoundPaths : path = EmptyString \/ Requested(path)

\* C8, amended: in the Universe FindTypes returns only the user-requested
\* packages are filled in (Name, SourcePath); a package that is not
\* user-requested has at most an empty marker (no Name, no SourcePath), and
\* every import of a filled-in package has such a record, linked from the
\* Imports of the importing package.
C8_OnlyRequestedAreFilledIn ==
  Found =>
    /\ \A path \in FoundPaths :
         (path # EmptyString /\ ~Requested(path))
            => FoundRecord(path).Name = "" /\ FoundRecord(path).SourcePath = EmptyString
    /\ \A p \in Kept :
         /\ p \in FoundPaths
         /\ FoundRecord(p).Name = p[Len(p)]
         /\ FoundRecord(p).SourcePath = builder.absPaths[p]
         /\ \A i \in builder.importGraph[p] :
              /\ i \in FoundPaths
              /\ i \in DOMAIN FoundRecord(p).Imports
              /\ FoundRecord(p).Imports[i] = found.u[1].u[i]

\* FindTypes returned a Universe with a record for a package that was pulled
\* in by an import only, and one for a package that did not resolve
C8_Witness ==
  /\ Found
  /\ \E path \in FoundPaths :
       path # EmptyString /\ ~Requested(path) /\ path \in DOMAIN builder.parsed
  /\ \E path \in FoundPaths : path # EmptyString /\ Unresolvable(path)

\* nothing is wrong with the directory dir refers to, nor with the directory
\* of the package path it is canonicalized to
Sound(dir) ==
  /\ DirStatus(world, SrcDir(ResolvedImportPath(dir))) = "ok"
  /\ DirStatus(world, SrcDir(canonicalizeImportPath(ResolvedImportPath(dir)))) = "ok"

\* the calls before the i-th were calls of AddDir that returned no error
AddedWithoutError(i) ==
  \A j \in 1..(i - 1) : history[j].op = "AddDir" /\ history[j].err = NoError

\* C9: when every explicitly requested package was added without error, a
\* failure on a package reached only through imports fails neither the AddDir
\* call on a package that has nothing wrong itself nor the FindTypes call
\* that follows.
C9_TransitiveFailuresNeverSurface ==
  /\ \A i \in 1..Len(history) :
       (AddedWithoutError(i) /\ history[i].op = "AddDir" /\ Sound(history[i].dir))
          => history[i].err = NoError
  /\ AddedWithoutError(Len(history) + 1) => (found = NotCalled \/ found.err = NoError)

\* C10: a call of AddDir or AddDirRecursive during which typeCheckPackage
\* met a circular dependency returned an error.
C10_CircularDependencyFatal ==
  \A i \in 1..Len(history) : history[i].circular => history[i].err # NoError


\* the frames of the call stack in which Check is running
Checking == {k \in 1..Len(bstack) : bstack[k].pc \in {"check", "imported"}}

\* C11: a package is marked in progress for as long as Check runs for it, no
\* package has Check running twice on the call stack, a request for a package
\* in progress returns with the stack no deeper, and every call of AddDir or
\* AddDirRecursive that started returns.
C11_InProgressStopsRecursion ==
  /\ [](\A k \in Checking :
          /\ bstack[k].pkgPath \in DOMAIN builder.typeCheckedPackages
          /\ builder.typeCheckedPackages[bstack[k].pkgPath] = NilPkg)
  /\ [](\A k, l \in Checking : bstack[k].pkgPath = bstack[l].pkgPath => k = l)
  /\ [](Len(bstack) <= Cardinality(Pkgs) + 1)
  /\ [](cur.op # "" => <>(cur.op = ""))

\* a request for a package in progress was refused while Check was running
\* for it, and the call has returned
C11_Witness ==
  /\ history # <<>>
  /\ history[Len(history)].circular
  /\ BuilderIdle


\* the package path the importPackage on top of the stack works on, once the
\* directory is added
TopPkgPath == CanonicalOr(builder, BTop.dir)

\* importPackage runs for a package that has a completed result
CachedRequest ==
  /\ bstack # <<>>
  /\ BTop.pc = "start"
  /\ TopPkgPath \in DOMAIN builder.parsed
  /\ Get(builder.typeCheckedPackages, TopPkgPath, NilPkg) # NilPkg

\* C12: a request for a package that has a completed result returns that
\* result with no error, calls Check for no package and changes nothing in the
\* Builder but the user-requested mark importPackage sets; a completed result
\* is never replaced; and Check is called at most once per package path.
C12_TypeCheckIdempotent ==
  /\ [][CachedRequest =>
          /\ bret'.pkg = builder.typeCheckedPackages[TopPkgPath]
          /\ bret'.err = NoError
          /\ bstack' = Popped
          /\ checks' = checks
          /\ builder' = [builder EXCEPT !.userRequested =
                           Put(@, TopPkgPath, BTop.userRequested \/ Get(@, TopPkgPath, FALSE))]
       ]_vars
  /\ [][\A p \in DOMAIN builder.typeCheckedPackages :
          builder.typeCheckedPackages[p] # NilPkg
            => /\ p \in DOMAIN builder'.typeCheckedPackages
               /\ builder'.typeCheckedPackages[p] = builder.typeCheckedPackages[p]
       ]_vars
  /\ [](\A p \in DOMAIN checks : checks[p] <= 1)
  /\ [](DOMAIN checks = DOMAIN builder.typeCheckedPackages)

\* a package was requested by two AddDir calls, Check ran for it once, and the
\* second call got the completed result
C12_Witness ==
  /\ BuilderIdle
  /\ Len(history) = 2
  /\ history[1].dir = history[2].dir
  /\ history[2].err = NoError
  /\ bret.pkg # NilPkg
  /\ Get(checks, history[2].dir, 0) = 1


\* the files of the directory dir refers to do not type-check
HasTypeError(dir) == DirStatus(world, SrcDir(ResolvedImportPath(dir))) = "typeerr"

\* C13: the type checker's error on a package is propagated as the error of
\* the AddDir call that explicitly requested the package, and is not returned
\* to the import callback that requested the package.
C13_OracleErrorFatalWhenRequested ==
  /\ \A i \in 1..Len(history) :
       (history[i].op = "AddDir" /\ HasTypeError(history[i].dir))
          => history[i].err # NoError
  /\ (bret.dir # <<>> /\ ~bret.userRequested /\ HasTypeError(bret.dir))
       => (bret.err = NoError \/ bret.err[1] # "type checker")


\* the canonical package path and the directory go/build resolves dir to
CanonicalOf(dir) == canonicalizeImportPath(ResolvedImportPath(dir))
LocationOf(dir) == SrcDir(ResolvedImportPath(dir))

\* two directory references that resolve to one canonical package path at
\* two locations
Disagree(d1, d2) ==
  /\ d1 # d2
  /\ ~Unresolvable(d1) /\ ~Unresolvable(d2)
  /\ CanonicalOf(d1) = CanonicalOf(d2)
  /\ LocationOf(d1) # LocationOf(d2)

\* C14: when two directory references resolve to the same canonical package
\* path at different locations, the AddDir call for the second returns an
\* error, and the location recorded for the path is that of the first.
C14_DuplicateResolutionFatal ==
  \A i, j \in 1..Len(history) :
    (i < j /\ history[i].op = "AddDir" /\ history[j].op = "AddDir"
     /\ Disagree(history[i].dir, history[j].dir))
       => /\ history[j].err # NoError
          /\ Get(builder.absPaths, CanonicalOf(history[i].dir), <<>>)
               = LocationOf(history[i].dir)


\* the paths of s are in ascending order
Ascending(s) == \A i, j \in 1..Len(s) : i < j => StringLess(s[i], s[j])

\* C15: FindTypes walks the packages in ascending order of their paths and
\* registers the imports of each in sorted order, so what it returns does not
\* depend on the order in which the Builder's maps are ranged over: after the
\* same calls on the same source tree, every run returns the same Universe
\* (packages, types, imports) and the same error.
C15_FindTypesDeterministic ==
  found # NotCalled =>
    /\ \A order \in RangeOrders :
         /\ FindTypes(builder, order) = found
         /\ Ascending(SortStrings(RangeKeys(DOMAIN builder.parsed, order)))
         /\ \A p \in DOMAIN builder.importGraph :
              Ascending(SortStrings(RangeKeys(builder.importGraph[p], order)))
    /\ Found => \A p \in Kept : DOMAIN FoundRecord(p).Imports = builder.importGraph[p]

\* FindTypes returned a Universe of two user-requested packages, one of them
\* with two imports
C15_Witness ==
  /\ Found
  /\ Cardinality(Kept) >= 2
  /\ \E p \in Kept : Cardinality(builder.importGraph[p]) = 2


\* C16: when FindTypes returns an error the Universe it returns is nil,
\* however many packages were processed before the one that failed.
C16_NoUniverseOnError ==
  (found # NotCalled /\ found.err # NoError) => found.u = <<>>

\* FindTypes failed on a package after it had processed a user-requested
\* package that sorts before it
C16_Witness ==
  /\ found # NotCalled
  /\ found.err # NoError
  /\ found.err[1] = "package is not known"
  /\ \E p \in Kept :
       /\ StringLess(p, found.err[2])
       /\ Get(builder.typeCheckedPackages, p, NilPkg) # NilPkg


\* the text, split into lines, of the comment group of file that ends on
\* line; the text of no group is one empty line
CommentEndingAt(file, line) ==
  IF \E g \in FileComments(file) : g.line = line
  THEN (CHOOSE g \in FileComments(file) : g.line = line).text
  ELSE <<"">>

\* the node FindTypes returned for the type T of package p, and the file and
\* line of its declaration
FoundType(p) == found.u[1].nd[FoundRecord(p).Types[<<"T">>]]
DeclFile(p) == builder.parsed[p][1]

NestedDirs(root) ==
  {CanonicalOf(root) \o SubDirs(LocationOf(root))[k] :
     k \in 1..Len(SubDirs(LocationOf(root)))}

\* C18: a call of AddDirRecursive returned an error exactly when its root
\* cannot be resolved, whatever happened to the directories below it, and
\* after a call that returned no error every nested directory that holds a
\* package is user-requested.
C18_RecursiveFailsOnlyOnRoot ==
  \A i \in 1..Len(history) :
    history[i].op = "AddDirRecursive" =>
      /\ history[i].err # NoError <=> Unresolvable(history[i].dir)
      /\ history[i].err = NoError =>
           \A d \in NestedDirs(history[i].dir) :
             DirStatus(world, LocationOf(d)) \in {"ok", "typeerr"} => Requested(d)


\* the one call made on the Builder was AddDirRecursive(root), on a tree
\* whose nested directories all hold packages, and FindTypes was called
RecursiveThenFound(root) ==
  /\ Len(history) = 1
  /\ history[1].op = "AddDirRecursive" /\ history[1].dir = root
  /\ \A d \in NestedDirs(root) : DirStatus(world, LocationOf(d)) = "ok"
  /\ found # NotCalled

\* C19: after AddDirRecursive(root) on a tree whose nested directories hold
\* packages, whether the root holds source files or none and whatever the
\* call returned, FindTypes returns no error and a Universe that holds the
\* nested packages.
C19_RecursiveFindsNestedPackages ==
  \A root \in RecursiveRoots :
    (RecursiveThenFound(root) /\ DirStatus(world, LocationOf(root)) \in {"ok", "nogo"})
      => /\ found.err = NoError
         /\ Found
         /\ \A d \in NestedDirs(root) : d \in FoundPaths /\ FoundRecord(d).Name # ""


\* the named types whose underlying type is named, primitive, a map or a slice
AliasTypes ==
  {t \in NamedTypes : TC[TC[t].under].cat \in {"Named", "Basic", "Map", "Slice"}}

NodeIn(st, n) ==
  IF n.Package \in DOMAIN st.u /\ n.Name \in DOMAIN st.pk[st.u[n.Package]].Types
  THEN st.pk[st.u[n.Package]].Types[n.Name]
  ELSE Nil

\* C21: the walk of a primitive type, whatever name override it was given,
\* returns the node registered under the primitive's bare name in the
\* empty-path package: for a name of the builtin table the shared builtin
\* node, which the walk leaves as it was; otherwise a node of Kind
\* Unsupported, which is the node found there when one exists already, and
\* then no node changes.
C21_PrimitiveIsBareName ==
  [][Walking("Basic") =>
       /\ rv'.node # Nil
       /\ rv'.node = NodeIn(uni', MkName(EmptyString, <<TC[Top.t].name>>))
       /\ IF <<TC[Top.t].name>> \in DOMAIN builtins
          THEN /\ rv'.node = builtins[<<TC[Top.t].name>>]
               /\ uni'.nd[rv'.node] = uni.nd[rv'.node]
               /\ uni'.nd[rv'.node].Kind = Builtin
          ELSE /\ uni'.nd[rv'.node].Kind = Unsupported
               /\ NodeIn(uni, MkName(EmptyString, <<TC[Top.t].name>>)) # Nil
                    => /\ rv'.node = NodeIn(uni, MkName(EmptyString, <<TC[Top.t].name>>))
                       /\ uni'.nd = uni.nd
    ]_walkVars

\* struct Box was walked: its fields C and D, both of type complex128, have
\* the one Unsupported node, and its field of type int in Point the builtin
C21_Witness ==
  /\ stack = <<>>
  /\ Made("Box") /\ Len(TheNode("Box").Members) = 4
  /\ TheNode("Box").Members[2].Type = TheNode("Box").Members[3].Type
  /\ uni.nd[TheNode("Box").Members[2].Type].Kind = Unsupported
  /\ Made("Point") /\ TheNode("Point").Members[1].Type = builtins[<<"int">>]


\* the node the map fam ("Types", "Functions", "Variables" or "Constants") of
\* the package of name n keeps for it in the store st, Nil when none
MapNode(st, fam, n) ==
  IF n.Package \in DOMAIN st.u /\ n.Name \in DOMAIN st.pk[st.u[n.Package]][fam]
  THEN st.pk[st.u[n.Package]][fam][n.Name]
  ELSE Nil

Families == {"Types"} \cup DeclFamilies

\* the qualified name of a function, variable or constant of the scope
ObjectName(o) == MkName(<<Objs[o].pkg>>, <<Objs[o].name>>)

\* every node of a Functions, Variables or Constants map has Kind
\* DeclarationOf and the name it is kept under, and no other entry of any
\* of the four maps of any package is that node
DeclarationsApart ==
  \A p \in DOMAIN uni.pk, fam \in DeclFamilies :
    \A k \in DOMAIN uni.pk[p][fam] :
      LET Apart(t) ==
            /\ uni.nd[t].Kind = DeclarationOf
            /\ uni.nd[t].Name = MkName(uni.pk[p].Path, k)
            /\ \A p2 \in DOMAIN uni.pk, fam2 \in Families :
                 \A k2 \in DOMAIN uni.pk[p2][fam2] :
                   uni.pk[p2][fam2][k2] = t => p2 = p /\ fam2 = fam /\ k2 = k
      IN Apart(uni.pk[p][fam][k])

\* the entries the maps other than fam had are the entries they have
OtherMapsKept(fam) ==
  \A p \in DOMAIN uni.pk, fam2 \in Families \ {fam} : uni'.pk[p][fam2] = uni.pk[p][fam2]

\* C22: a top-level function, variable or constant is a node of Kind
\* DeclarationOf kept in the Functions, Variables or Constants map of its
\* package under its name, and its Underlying is the node the walk of its
\* type returned; the nodes the four maps of a package keep for one name
\* are distinct nodes; an accessor call changes no node that existed, and
\* adding a declaration changes no node but the declaration's own (and the
\* ones the walk of its type makes) and no entry of the other maps.
C22_DeclarationsInOwnMaps ==
  /\ []DeclarationsApart
  /\ [][/\ (Idle /\ stack' = <<>> /\ ops' # ops)
            => \A t \in DOMAIN uni.nd : uni'.nd[t] = uni.nd[t]
        /\ (stack # <<>> /\ Top.op \in DOMAIN DeclFamily)
            => /\ \A t \in DOMAIN uni.nd : t # Top.out => uni'.nd[t] = uni.nd[t]
               /\ OtherMapsKept(DeclFamily[Top.op])
        /\ (stack # <<>> /\ Top.op \in DOMAIN DeclFamily /\ Top.pc = "underlying")
            => /\ rv'.node # Nil
               /\ rv'.node = MapNode(uni', DeclFamily[Top.op], ObjectName(Top.t))
               /\ uni'.nd[rv'.node].Kind = DeclarationOf
               /\ uni'.nd[rv'.node].Underlying # Nil
               /\ uni'.nd[rv'.node].Underlying = NodeIn(uni', NameOf(Objs[Top.t].type))
       ]_walkVars

\* u.Type was called with the name of function Zero, then Zero was added:
\* the Types map keeps an Unknown marker, the Functions map the declaration
\* with the walked signature as Underlying
C22_Witness ==
  /\ Idle
  /\ MapNode(uni, "Types", ObjectName("Zero")) # Nil
  /\ MapNode(uni, "Functions", ObjectName("Zero")) # Nil
  /\ MapNode(uni, "Types", ObjectName("Zero")) # MapNode(uni, "Functions", ObjectName("Zero"))
  /\ uni.nd[MapNode(uni, "Types", ObjectName("Zero"))].Kind = Unknown
  /\ uni.nd[MapNode(uni, "Functions", ObjectName("Zero"))].Kind = DeclarationOf
  /\ uni.nd[uni.nd[MapNode(uni, "Functions", ObjectName("Zero"))].Underlying].Kind = Func
  /\ uni.nd[MapNode(uni, "Functions", ObjectName("Zero"))].CommentLines = <<"Zero doc">>


\* the frame that runs is a walkType of a type that has no case of its own
WalkingOther ==
  /\ stack # <<>>
  /\ Top.op = "walkType"
  /\ TC[Top.t].cat \notin {"Struct", "Map", "Pointer", "Slice", "Array", "Chan", "Basic",
                           "Signature", "Interface", "Named"}

\* C23: every walk that was started returns, and what a walkType frame
\* returns is a node of the Universe with a Kind; the walk of a type of a
\* category walkType has no case for returns the node registered under the
\* type's name: the node found there, no node changed, when its Kind is
\* known already, and otherwise a node that gets Kind Unsupported.
C23_WalkTypeTotal ==
  /\ (stack # <<>>) ~> (stack = <<>> /\ rv.node # Nil /\ uni.nd[rv.node].Kind # Unknown)
  /\ [][(stack # <<>> /\ Top.op = "walkType" /\ Len(stack') < Len(stack))
          => /\ rv'.sig = NoSignature
             /\ rv'.node \in DOMAIN uni'.nd
             /\ uni'.nd[rv'.node].Kind # Unknown]_walkVars
  /\ [][WalkingOther
          => /\ Len(stack') < Len(stack)
             /\ rv'.node = NodeIn(uni', WalkName(Top))
             /\ IF NodeIn(uni, WalkName(Top)) # Nil
                   /\ uni.nd[NodeIn(uni, WalkName(Top))].Kind # Unknown
                THEN rv'.node = NodeIn(uni, WalkName(Top)) /\ uni'.nd = uni.nd
                ELSE uni'.nd[rv'.node].Kind = Unsupported]_walkVars

\* struct Box was walked: its fields V and W, both of the type parameter T,
\* have the one node named T, of Kind Unsupported
C23_Witness ==
  /\ stack = <<>>
  /\ Made("Box") /\ Len(TheNode("Box").Members) = 4
  /\ TheNode("Box").Members[1].Type = TheNode("Box").Members[4].Type
  /\ uni.nd[TheNode("Box").Members[1].Type].Kind = Unsupported
  /\ uni.nd[TheNode("Box").Members[1].Type].Name = MkName(EmptyString, <<"T">>)


\* C24: the user-requested flag of a path that is true stays true in every
\* step; and when an AddDir of a directory that resolved has returned
\* without error, the canonical path of the directory is user-requested,
\* whatever name the directory was given under and whether or not the
\* package was loaded for an import before, and a Universe FindTypes
\* returns has the package with its name and its type.
C24_UserRequestedMonotone ==
  /\ [][\A p \in DOMAIN builder.userRequested :
          builder.userRequested[p] => Get(builder'.userRequested, p, FALSE)]_vars
  /\ [](\A i \in 1..Len(history) :
         (/\ history[i].op = "AddDir"
          /\ history[i].err = NoError
          /\ history[i].dir \in DOMAIN builder.buildPackages)
           => /\ Requested(CanonicalOf(history[i].dir))
              /\ Found => /\ CanonicalOf(history[i].dir) \in FoundPaths
                          /\ FoundRecord(CanonicalOf(history[i].dir)).Name # ""
                          /\ <<"T">> \in DOMAIN FoundRecord(CanonicalOf(history[i].dir)).Types
                          /\ FoundType(CanonicalOf(history[i].dir)).Kind = Struct)

\* r/b was loaded for the import of r/a, then AddDir was called with the
\* vendored directory of r/b, and FindTypes returned r/b with its type
C24_Witness ==
  /\ Len(history) = 2
  /\ history[1].op = "AddDir" /\ history[1].dir = PkgA /\ history[1].err = NoError
  /\ history[2].op = "AddDir" /\ history[2].dir = DirVendorB /\ history[2].err = NoError
  /\ world.imports[PkgA] = <<PkgB>>
  /\ Requested(PkgB)
  /\ Found /\ PkgB \in FoundPaths /\ FoundRecord(PkgB).Name # ""
  /\ FoundType(PkgB).Kind = Struct


\* the import paths written in the parsed files of package p
ImportLiterals(p) ==
  UNION { {DirImports(world, builder.parsed[p][i].dir)[j] :
             j \in 1..Len(DirImports(world, builder.parsed[p][i].dir))} :
          i \in 1..Len(builder.parsed[p]) }

\* the Imports map of package p in the store st, each entry by the path of
\* the Package it is
ImportsByPath(st, p) ==
  [k \in DOMAIN st.pk[st.u[p]].Imports |-> st.pk[st.pk[st.u[p]].Imports[k]].Path]

\* AddImports(p, paths...) on the store st gives one entry for each path,
\* each the Package that Universe.Package returns for it, and the same map
\* for the paths in any order and for the call made twice
AddImportsStable(st, p) ==
  \A keys \in SUBSET Pkgs :
    LET Same(a, c) ==
          /\ DOMAIN a.pk[a.u[p]].Imports = keys \cup DOMAIN ImportsByPath(st, p)
          /\ \A k \in keys : a.pk[a.u[p]].Imports[k] = a.u[k]
          /\ ImportsByPath(c, p) = ImportsByPath(a, p)
          /\ \A o \in RangeOrders :
               ImportsByPath(AddImports(st, p, RangeKeys(keys, o), 1), p) = ImportsByPath(a, p)
        Once(a) == Same(a, AddImports(a, p, SortStrings(RangeKeys(keys, CHOOSE o \in RangeOrders : TRUE)), 1))
    IN Once(AddImports(st, p, SortStrings(RangeKeys(keys, CHOOSE o \in RangeOrders : TRUE)), 1))

\* C25: in the Universe FindTypes returns, the Imports of every
\* user-requested package have exactly the import paths written in the
\* package's parsed files as keys, each entry being the Package the
\* Universe keeps for that path; and AddImports on that package, in that
\* Universe or in an empty one, gives the same map whatever the order of
\* the paths and when it is called again.
C25_ImportsPerLiteral ==
  Found =>
    \A p \in Kept :
      /\ DOMAIN FoundRecord(p).Imports = ImportLiterals(p)
      /\ \A k \in DOMAIN FoundRecord(p).Imports :
           /\ k \in FoundPaths
           /\ FoundRecord(p).Imports[k] = found.u[1].u[k]
           /\ FoundRecord(k).Path = k
      /\ AddImportsStable(found.u[1], p)
      /\ AddImportsStable(UniversePackage(EmptyUniverse(BuiltinNodes), p).st, p)

\* FindTypes returned r, whose files import r/a and r/b, with both imports
C25_Witness ==
  /\ Found
  /\ PkgR \in Kept
  /\ ImportLiterals(PkgR) = {PkgA, PkgB}
  /\ DOMAIN FoundRecord(PkgR).Imports = {PkgA, PkgB}
  /\ FoundRecord(PkgR).Imports[PkgA] # FoundRecord(PkgR).Imports[PkgB]


\* C26: the list of parsed files of a package never has one path twice,
\* and addFile with a path of the list, whatever its flag, returns no error
\* and leaves the Builder as it is: the list, the comment index, the import
\* graph and the user-requested flags.
C26_ParsedOnce ==
  \A p \in DOMAIN builder.parsed :
    /\ \A i, j \in 1..Len(builder.parsed[p]) :
         builder.parsed[p][i] = builder.parsed[p][j] => i = j
    /\ \A i \in 1..Len(builder.parsed[p]), flag \in BOOLEAN :
         LET Same(r) ==
               /\ r.err = NoError
               /\ r.b.parsed = builder.parsed
               /\ r.b.endLineToCommentGroup = builder.endLineToCommentGroup
               /\ r.b.importGraph = builder.importGraph
               /\ r.b.userRequested = builder.userRequested
               /\ r.b = builder
         IN Same(addFile(world, builder, p, builder.parsed[p][i], flag))

\* r/a was added, then added again as ./r/a: addDir went through its two
\* files a second time, and the list has each once
C26_Witness ==
  /\ Len(history) = 2
  /\ history[1].dir = PkgA /\ history[1].err = NoError
  /\ history[2].dir = DirAliasA /\ history[2].err = NoError
  /\ DirAliasA \in DOMAIN builder.buildPackages
  /\ Len(builder.parsed[PkgA]) = 2
  /\ builder.parsed[PkgA][1] # builder.parsed[PkgA][2]


\* C27: when no call is running, every path that has parsed files has a
\* package recorded by the type checker, and FindTypes does not return the
\* error "package is not known".
C27_ParsedImpliesChecked ==
  BuilderIdle =>
    /\ \A p \in DOMAIN builder.parsed :
         Get(builder.typeCheckedPackages, p, NilPkg) # NilPkg
    /\ (found # NotCalled /\ found.err # NoError) => found.err[1] # "package is not known"


\* the step returns the error "circular dependency" to the caller
ReturnsCircular ==
  /\ Len(bstack') < Len(bstack)
  /\ bret'.err # NoError
  /\ bret'.err[1] = "circular dependency"

C29_BuiltinsUntouched ==
  \A i \in 1..Len(BuiltinNodes) :
    /\ uni.nd[i].Kind = Builtin
    /\ uni.nd[i].CommentLines = BuiltinNodes[i].CommentLines
    /\ uni.nd[i].SecondClosestCommentLines = BuiltinNodes[i].SecondClosestCommentLines
    /\ uni.nd[i].Members = BuiltinNodes[i].Members
    /\ uni.nd[i].Methods = BuiltinNodes[i].Methods
    /\ uni.nd[i].Underlying = BuiltinNodes[i].Underlying


\* C30: after a first AddDir that returned an error the Builder is the new
\* Builder it was before the call (no build package, location, parsed
\* file, user-requested flag, type-check result, comment or import was
\* recorded), and an AddDir that returned an error returns that error
\* again when it is called again with the same directory.
C30_FailedAddDirLeavesNoTrace ==
  /\ (/\ BuilderIdle
      /\ Len(history) = 1
      /\ history[1].op = "AddDir"
      /\ history[1].err # NoError) => builder = NewBuilder
  /\ \A i \in 1..(Len(history) - 1) :
       (/\ history[i].op = "AddDir"
        /\ history[i].err # NoError
        /\ history[i + 1].op = "AddDir"
        /\ history[i + 1].dir = history[i].dir) => history[i + 1].err = history[i].err


\* C31: the node every call of Universe.Type returned has the name the
\* call was made with, package and local name, and two calls made with
\* different names returned different nodes.
C31_TypeCarriesItsName ==
  \A i \in 1..Len(uni.log) :
    uni.log[i].fam = "Types" =>
      /\ uni.nd[uni.log[i].ret].Name = MkName(uni.log[i].pkg, uni.log[i].name)
      /\ \A j \in 1..Len(uni.log) :
           (uni.log[j].fam = "Types" /\ uni.log[j].ret = uni.log[i].ret)
             => uni.log[j].pkg = uni.log[i].pkg /\ uni.log[j].name = uni.log[i].name


\* the step is a call of FindTypes that returns
FindTypesReturns == found = NotCalled /\ found' # NotCalled

\* the results r and q of two calls of FindTypes are the same error and
\* Universes of the same packages and nodes
SameUniverse(r, q) ==
  /\ r.err = q.err
  /\ Len(r.u) = Len(q.u)
  /\ r.u # <<>> =>
       /\ r.u[1].u = q.u[1].u
       /\ r.u[1].pk = q.u[1].pk
       /\ r.u[1].nd = q.u[1].nd

=============================================================================
